---------------------------- MODULE Spec2Model ----------------------------
(***************************************************************************)
(* A model of the GQP core (mzhub-labs/GQP): the schema graph, the         *)
(* navigation cursor, the cursor pool, the security gate and the tool-call *)
(* entry point of the engine.                                              *)
(*                                                                         *)
(* JavaScript Maps and Sets iterate in insertion order, so they are        *)
(* modelled as sequences without duplicates.  null / undefined is the      *)
(* string NULL.                                                            *)
(***************************************************************************)
EXTENDS Integers, Sequences, FiniteSets, TLC

VARIABLES
    schema,         \* GQPSchema: [nodes, rootNodeNames, edgeIndex]
    maxPathLength,  \* GQPGraphCursor.maxPathLength of the cursor under study
    cursor,         \* GQPGraphCursor.cursor (the GQPCursor record) of one cursor
    lastOp,         \* the last operation applied, its argument and what it returned
    cursors,        \* CursorManager.cursors: the pool, in Map insertion order
    maxCursors,     \* CursorManager.maxCursors
    cursorTTL,      \* CursorManager.cursorTTL
    now,            \* Date.now()
    nextId,         \* the number of the next cursor id generateCursorId hands out
    secConfig,      \* SecurityManager.config
    initialized,    \* GQP.initialized
    call,           \* the handleToolCall in progress: its params, position and effects
    life,           \* GQP: initialize(), refreshSchema() and handleToolCall calls in flight
    exec            \* one QueryExecutor call: its configuration, position and effects

cursorVars == <<maxPathLength, cursor>>
storeVars  == <<cursors, maxCursors, cursorTTL, now, nextId>>

engineVars == <<initialized, call, life>>
vars == <<schema, lastOp, cursorVars, storeVars, secConfig, engineVars, exec>>

NULL == "<null>"

\* Cursor ids are numbered in the order generateCursorId hands them out.
NoId    == -1   \* no id given (undefined)
BogusId == 0    \* a string no cursor was ever given, such as "non-existent"

----------------------------------------------------------------------------
(* Sequence helpers *)

SeqToSet(s) == {s[i] : i \in 1..Len(s)}

Contains(s, x) == \E i \in 1..Len(s) : s[i] = x

\* Array.prototype.slice(0, n)
Slice(s, n) == IF Len(s) <= n THEN s ELSE SubSeq(s, 1, n)

\* Set.prototype.add on an insertion-ordered set
SetAdd(s, x) == IF Contains(s, x) THEN s ELSE Append(s, x)

----------------------------------------------------------------------------
(* GQPSchema *)

EmptySchema == [nodes |-> <<>>, rootNodeNames |-> <<>>, edgeIndex |-> <<>>]

HasNode(s, name) == \E i \in 1..Len(s.nodes) : s.nodes[i].name = name

\* getNode: defined only where HasNode holds; callers test HasNode first
getNode(s, name) ==
    s.nodes[CHOOSE i \in 1..Len(s.nodes) : s.nodes[i].name = name]

\* Map.prototype.set: an existing key keeps its position
MapSetNode(nodes, node) ==
    IF \E i \in 1..Len(nodes) : nodes[i].name = node.name
    THEN [i \in 1..Len(nodes) |->
             IF nodes[i].name = node.name THEN node ELSE nodes[i]]
    ELSE Append(nodes, node)

HasIndex(edgeIndex, name) ==
    \E i \in 1..Len(edgeIndex) : edgeIndex[i].src = name

\* edgeIndex.get(name) || new Set()
EdgeTargets(edgeIndex, name) ==
    IF HasIndex(edgeIndex, name)
    THEN edgeIndex[CHOOSE i \in 1..Len(edgeIndex) : edgeIndex[i].src = name].targets
    ELSE <<>>

\* one pass of the edge loop of addNode
IndexEdge(edgeIndex, name, to) ==
    LET withKey == IF HasIndex(edgeIndex, name) THEN edgeIndex
                   ELSE Append(edgeIndex, [src |-> name, targets |-> <<>>])
    IN  [i \in 1..Len(withKey) |->
            IF withKey[i].src = name
            THEN [withKey[i] EXCEPT !.targets = SetAdd(@, to)]
            ELSE withKey[i]]

RECURSIVE IndexEdges(_, _, _)
IndexEdges(edgeIndex, name, edges) ==
    IF edges = <<>> THEN edgeIndex
    ELSE IndexEdges(IndexEdge(edgeIndex, name, Head(edges).to), name, Tail(edges))

addNode(s, node, isRoot) ==
    [nodes         |-> MapSetNode(s.nodes, node),
     rootNodeNames |-> IF isRoot THEN SetAdd(s.rootNodeNames, node.name)
                       ELSE s.rootNodeNames,
     edgeIndex     |-> IndexEdges(s.edgeIndex, node.name, node.edges)]

RECURSIVE addNodes(_, _)
addNodes(s, nodeSeq) ==
    IF nodeSeq = <<>> THEN s
    ELSE addNodes(addNode(s, Head(nodeSeq), TRUE), Tail(nodeSeq))

\* getRootNodes, as names
RECURSIVE RootsOf(_, _)
RootsOf(s, names) ==
    IF names = <<>> THEN <<>>
    ELSE IF HasNode(s, Head(names))
         THEN <<Head(names)>> \o RootsOf(s, Tail(names))
         ELSE RootsOf(s, Tail(names))

getRootNodes(s) == RootsOf(s, s.rootNodeNames)

getNodeCount(s) == Len(s.nodes)

\* first loop of getNeighbors: the targets of the node's outgoing edges
RECURSIVE ForwardNeighbors(_, _, _, _)
ForwardNeighbors(s, targets, limit, acc) ==
    IF targets = <<>> \/ Len(acc) >= limit THEN acc
    ELSE ForwardNeighbors(s, Tail(targets), limit,
             IF HasNode(s, Head(targets)) THEN Append(acc, Head(targets)) ELSE acc)

\* a second loop that does not look at what it has collected
RECURSIVE ReverseNeighborsRepeating(_, _, _, _, _)
ReverseNeighborsRepeating(s, entries, nodeName, limit, acc) ==
    IF entries = <<>> \/ Len(acc) >= limit THEN acc
    ELSE LET e == Head(entries)
         IN  ReverseNeighborsRepeating(s, Tail(entries), nodeName, limit,
                 IF Contains(e.targets, nodeName) /\ e.src # nodeName /\ HasNode(s, e.src)
                 THEN Append(acc, e.src) ELSE acc)

\* second loop of getNeighbors: the nodes that point to the node
RECURSIVE ReverseNeighbors(_, _, _, _, _)
ReverseNeighbors(s, entries, nodeName, limit, acc) ==
    IF entries = <<>> \/ Len(acc) >= limit THEN acc
    ELSE LET e == Head(entries)
         IN  ReverseNeighbors(s, Tail(entries), nodeName, limit,
                 IF /\ Contains(e.targets, nodeName)
                    /\ e.src # nodeName
                    /\ HasNode(s, e.src)
                    /\ ~Contains(acc, e.src)
                 THEN Append(acc, e.src) ELSE acc)

\* getNeighbors, as names
getNeighbors(s, nodeName, limit) ==
    IF ~HasNode(s, nodeName) THEN <<>>
    ELSE Slice(ReverseNeighbors(s, s.edgeIndex, nodeName, limit,
                   ForwardNeighbors(s, EdgeTargets(s.edgeIndex, nodeName), limit, <<>>)),
               limit)

\* findPath answers null with no path; a path it finds is never empty
NoPath == <<>>

\* the first neighbor loop of findPath that does not see the target: the
\* queue with one entry pushed per neighbor
RECURSIVE PushNeighbors(_, _, _)
PushNeighbors(queue, path, neighbors) ==
    IF neighbors = <<>> THEN queue
    ELSE PushNeighbors(Append(queue, Append(path, Head(neighbors))), path,
                       Tail(neighbors))

\* a search that gives up at the first dead end
RECURSIVE SearchFirstBranch(_, _, _, _, _)
SearchFirstBranch(s, queue, visited, to, maxDepth) ==
    IF queue = <<>> THEN NoPath
    ELSE LET path == Head(queue)
             neighbors == EdgeTargets(s.edgeIndex, path[Len(path)])
         IN  IF Len(path) > maxDepth \/ neighbors = <<>> THEN NoPath
             ELSE IF Contains(neighbors, to) THEN Append(path, to)
             ELSE SearchFirstBranch(s, <<Append(path, Head(neighbors))>>, visited,
                                    to, maxDepth - 1)

\* the while loop of findPath: queue holds the path of each entry (its node
\* is the last name of the path)
RECURSIVE Search(_, _, _, _, _)
Search(s, queue, visited, to, maxDepth) ==
    IF queue = <<>> THEN NoPath
    ELSE LET path == Head(queue)
             node == path[Len(path)]
             neighbors == EdgeTargets(s.edgeIndex, node)
         IN  IF Len(path) > maxDepth \/ node \in visited
             THEN Search(s, Tail(queue), visited, to, maxDepth)
             ELSE IF Contains(neighbors, to) THEN Append(path, to)
             ELSE Search(s, PushNeighbors(Tail(queue), path, neighbors),
                         visited \cup {node}, to, maxDepth)

findPath(s, from, to, maxDepth) ==
    IF from = to THEN <<from>>
    ELSE IF ~HasNode(s, from) \/ ~HasNode(s, to) THEN NoPath
    ELSE Search(s, <<(<<from>>)>>, {}, to, maxDepth)

\* clear
clear(s) == EmptySchema

DefaultMaxDepth == 4

DefaultNeighborLimit == 5

----------------------------------------------------------------------------
(* The graph of the test suites: User -> Order, Order -> User, Order -> Product *)

Edge(to, relation) == [to |-> to, relation |-> relation]

TestNodes ==
    << [name |-> "User", source |-> "test",
        edges |-> <<Edge("Order", "hasMany")>>],
       [name |-> "Order", source |-> "test",
        edges |-> <<Edge("User", "belongsTo"), Edge("Product", "hasMany")>>],
       [name |-> "Product", source |-> "test", edges |-> <<>>] >>

TestSchema == addNodes(EmptySchema, TestNodes)

\* names a caller may pass: the registered ones and one that is not registered
NodeNames == {"User", "Order", "Product", "Ghost"}

----------------------------------------------------------------------------
(* GQPGraphCursor *)

\* updateNeighbors: the cached neighbor list for a current node
updateNeighbors(s, currentNode) ==
    IF currentNode = NULL THEN getRootNodes(s)
    ELSE getNeighbors(s, currentNode, DefaultNeighborLimit)

\* constructor(schema, startNode?, maxPathLength)
NewCursor(s, id, startNode, createdAt) ==
    [id            |-> id,
     currentNode   |-> startNode,
     neighbors     |-> IF startNode # NULL THEN updateNeighbors(s, startNode) ELSE <<>>,
     path          |-> IF startNode # NULL THEN <<startNode>> ELSE <<>>,
     depth         |-> IF startNode # NULL THEN 0 ELSE -1,
     createdAt     |-> createdAt,
     totalNodes    |-> getNodeCount(s),
     exploredNodes |-> IF startNode # NULL THEN 1 ELSE 0]

\* getEdge(from, to).relation, "absent" when the node has no such edge;
\* callers test HasNode(s, from) first
EdgeRelation(s, from, to) ==
    LET edges == getNode(s, from).edges
    IN  IF \E i \in 1..Len(edges) : edges[i].to = to
        THEN edges[CHOOSE i \in 1..Len(edges) :
                     edges[i].to = to /\ \A j \in 1..(i - 1) : edges[j].to # to].relation
        ELSE "absent"

NeighborView(name, relation) == [name |-> name, relation |-> relation, distance |-> 1]

\* the view getNeighborhood returns when the current node does not resolve
RootView(s, size) ==
    LET rootNodes == Slice(getRootNodes(s), size)
    IN  [currentNode |-> NULL,
         neighbors |-> [i \in 1..Len(rootNodes) |-> NeighborView(rootNodes[i], "hasMany")],
         path |-> <<>>,
         depth |-> -1,
         availableActions |-> <<"explore", "navigate", "introspect">>]

\* the view getNeighborhood returns for a current node of the schema, with
\* explore pushed when canExplore
PositionedView(c, s, size, canExplore) ==
    LET neighbors == getNeighbors(s, c.currentNode, size)
        relationOf(n) == IF EdgeRelation(s, c.currentNode, n) = "absent"
                         THEN "hasMany" ELSE EdgeRelation(s, c.currentNode, n)
    IN  [currentNode |-> c.currentNode,
         neighbors |-> [i \in 1..Len(neighbors) |->
                           NeighborView(neighbors[i], relationOf(neighbors[i]))],
         path |-> c.path,
         depth |-> c.depth,
         availableActions |-> IF canExplore THEN <<"navigate", "query", "explore">>
                              ELSE <<"navigate", "query">>]

\* getNeighborhood(size): the view, with the current node given by name
getNeighborhood(c, s, size) ==
    IF c.currentNode = NULL \/ ~HasNode(s, c.currentNode) THEN RootView(s, size)
    ELSE PositionedView(c, s, size, Len(c.path) > 1)

\* navigateTo that appends without the sliding window
navigateToUnbounded(c, s, nodeName, maxLen) ==
    IF ~HasNode(s, nodeName) THEN c
    ELSE [c EXCEPT !.currentNode   = nodeName,
                   !.depth         = Len(c.path),
                   !.path          = Append(c.path, nodeName),
                   !.exploredNodes = Cardinality(SeqToSet(Append(c.path, nodeName))),
                   !.neighbors     = updateNeighbors(s, nodeName)]

\* navigateTo that positions the cursor before it looks the node up
navigateToMovesFirst(c, s, nodeName, maxLen) ==
    IF ~HasNode(s, nodeName) THEN [c EXCEPT !.currentNode = nodeName]
    ELSE [c EXCEPT !.currentNode   = nodeName,
                   !.depth         = Len(c.path),
                   !.path          = Append(IF Len(c.path) >= maxLen /\ c.path # <<>>
                                            THEN Tail(c.path) ELSE c.path, nodeName),
                   !.neighbors     = updateNeighbors(s, nodeName)]

\* navigateTo: the cursor afterwards; on a node the schema does not hold it
\* throws NODE_NOT_FOUND before it assigns anything
navigateTo(c, s, nodeName, maxLen) ==
    IF ~HasNode(s, nodeName) THEN c
    ELSE
    LET shifted == IF Len(c.path) >= maxLen /\ c.path # <<>>
                   THEN Tail(c.path) ELSE c.path
        newPath == Append(shifted, nodeName)
    IN  [c EXCEPT !.currentNode   = nodeName,
                  !.depth         = Len(c.path),
                  !.path          = newPath,
                  !.exploredNodes = Cardinality(SeqToSet(newPath)),
                  !.neighbors     = updateNeighbors(s, nodeName)]

\* goBack that pops whenever the path is not empty
goBackPastFirst(c, s) ==
    IF c.path = <<>> THEN c
    ELSE LET newPath == SubSeq(c.path, 1, Len(c.path) - 1)
         IN  [c EXCEPT !.path        = newPath,
                       !.currentNode = IF newPath = <<>> THEN NULL
                                       ELSE newPath[Len(newPath)],
                       !.depth       = IF c.depth - 1 > 0 THEN c.depth - 1 ELSE 0]

\* goBack: the cursor afterwards; on a path of at most one entry it returns
\* null and assigns nothing
goBack(c, s) ==
    IF Len(c.path) <= 1 THEN c
    ELSE
    LET newPath  == SubSeq(c.path, 1, Len(c.path) - 1)
        previous == newPath[Len(newPath)]
    IN  [c EXCEPT !.path        = newPath,
                  !.currentNode = previous,
                  !.depth       = IF c.depth - 1 > 0 THEN c.depth - 1 ELSE 0,
                  !.neighbors   = updateNeighbors(s, previous)]

reset(c) ==
    [c EXCEPT !.currentNode   = NULL,
              !.neighbors     = <<>>,
              !.path          = <<>>,
              !.depth         = -1,
              !.exploredNodes = 0]

----------------------------------------------------------------------------
(* Errors *)

\* GQPErrorCode: the codes a GQPError carries
GQPErrorCodes ==
    {"INVALID_ACTION", "INVALID_NODE", "NODE_NOT_FOUND", "NODE_REQUIRED",
     "ADAPTER_NOT_FOUND", "VALIDATION_ERROR", "AUTHORIZATION_ERROR",
     "ACCESS_DENIED", "INTROSPECTION_DISABLED", "QUERY_ERROR", "TIMEOUT_ERROR",
     "CONFIGURATION_ERROR", "CURSOR_NOT_FOUND", "CURSOR_EXPIRED",
     "RATE_LIMIT_ERROR", "PARSE_ERROR",
     "INTERNAL_ERROR"}

\* an error thrown by a collaborator that is not a GQPError
RawError == "Error"

\* errors are named by their code
isGQPError(e) == e \in GQPErrorCodes

\* an error handler that rethrows what it caught
wrapErrorRaw(e) == e

wrapError(e) == IF isGQPError(e) THEN e ELSE "INTERNAL_ERROR"

----------------------------------------------------------------------------
(* SecurityManager *)

\* A NodeAccessRule.  An absent or empty roles / actions list is the empty
\* set; check names the custom predicate ("absent": none).
Rule(roles, actions, check) == [roles |-> roles, actions |-> actions, check |-> check]

\* the custom predicates of the model, as functions of the context
CheckHolds(check, ctx) ==
    CASE check = "hasUser" -> ctx.userId # NULL
      [] check = "deny"    -> FALSE
      [] OTHER             -> TRUE

\* A configured map (nodeAccess, rowLevelSecurity): set tells whether the
\* option is given at all, entries is the object literal.
NoMap == [set |-> FALSE, entries |-> <<>>]
MapOf(entries) == [set |-> TRUE, entries |-> entries]

\* SecurityConfig with no option given
NoSecurity ==
    [context |-> FALSE, nodeAccess |-> NoMap, rowLevelSecurity |-> NoMap,
     introspection |-> NULL]

\* SecurityContext; defaultContext is {}
Ctx(userId, roles) == [userId |-> userId, roles |-> roles]
DefaultContext == Ctx(NULL, {})

\* names every object literal inherits from Object.prototype
ObjectPrototypeMembers == {"constructor"}

\* config.nodeAccess?.[node]: an own entry, else a member inherited from
\* Object.prototype (a function or object that has no roles, actions or
\* check), else undefined
NodeAccessEntry(m, key) ==
    IF ~m.set THEN [found |-> FALSE, rule |-> Rule({}, {}, "absent")]
    ELSE IF key \in DOMAIN m.entries THEN [found |-> TRUE, rule |-> m.entries[key]]
    ELSE IF key \in ObjectPrototypeMembers
         THEN [found |-> TRUE, rule |-> Rule({}, {}, "absent")]
    ELSE [found |-> FALSE, rule |-> Rule({}, {}, "absent")]

\* nodeAccess?.[node] || nodeAccess?.["*"]
ResolveRule(m, node) ==
    IF NodeAccessEntry(m, node).found THEN NodeAccessEntry(m, node)
    ELSE NodeAccessEntry(m, "*")

isEnabled(cfg) ==
    \/ cfg.context
    \/ cfg.nodeAccess.set
    \/ cfg.rowLevelSecurity.set
    \/ cfg.introspection # NULL

\* checkNodeAccess: "ok" or the code of the error thrown
checkNodeAccess(cfg, node, action, ctx) ==
    LET r == ResolveRule(cfg.nodeAccess, node)
    IN  IF ~r.found THEN "ok"
        ELSE IF r.rule.roles # {} /\ r.rule.roles \cap ctx.roles = {}
             THEN "ACCESS_DENIED"
        ELSE IF r.rule.actions # {} /\ action \notin r.rule.actions
             THEN "ACCESS_DENIED"
        ELSE IF r.rule.check = "throws" THEN RawError
        ELSE IF r.rule.check # "absent" /\ ~CheckHolds(r.rule.check, ctx)
             THEN "ACCESS_DENIED"
        ELSE "ok"

\* QueryFilters: conds is the set of field conditions, and the operands of
\* an AND key (<<>>: no AND key)
Filters(conds, and) == [conds |-> conds, and |-> and]
EmptyFilters == Filters({}, <<>>)

\* Object.keys(filters).length
KeyCount(f) == Cardinality(f.conds) + (IF f.and # <<>> THEN 1 ELSE 0)

\* the own enumerable keys of a context, as a filter object
ContextAsFilters(ctx) ==
    Filters((IF ctx.userId # NULL THEN {"userId"} ELSE {}) \cup
            (IF ctx.roles # {} THEN {"roles"} ELSE {}), <<>>)

\* the row-level-security functions of the model, applied to a context;
\* "Object" is the constructor inherited from Object.prototype, which
\* returns the object it is given
RunRLS(fn, ctx) ==
    CASE fn = "tenant"      -> Filters({"tenantId"}, <<>>)
      [] fn = "ownerIfUser" -> IF ctx.userId # NULL
                               THEN Filters({"ownerId"}, <<>>) ELSE EmptyFilters
      [] fn = "Object"      -> ContextAsFilters(ctx)
      [] OTHER              -> EmptyFilters

\* config.rowLevelSecurity?.[node]: an own entry, else a member inherited
\* from Object.prototype, else undefined ("absent")
RLSEntry(m, key) ==
    IF ~m.set THEN "absent"
    ELSE IF key \in DOMAIN m.entries THEN m.entries[key]
    ELSE IF key \in ObjectPrototypeMembers THEN "Object"
    ELSE "absent"

\* getRLSFilters: threw tells that the function threw (AUTHORIZATION_ERROR)
getRLSFilters(cfg, node, ctx) ==
    LET own   == RLSEntry(cfg.rowLevelSecurity, node)
        rlsFn == IF own # "absent" THEN own ELSE RLSEntry(cfg.rowLevelSecurity, "*")
    IN  IF rlsFn = "absent" THEN [threw |-> FALSE, filters |-> EmptyFilters]
        ELSE IF rlsFn = "throws" THEN [threw |-> TRUE, filters |-> EmptyFilters]
        ELSE [threw |-> FALSE, filters |-> RunRLS(rlsFn, ctx)]

\* applyRLS merging the two filter objects key by key
applyRLSMerged(cfg, node, filters, ctx) ==
    LET rls == getRLSFilters(cfg, node, ctx)
    IN  [threw   |-> rls.threw,
         filters |-> Filters(filters.conds \cup rls.filters.conds, filters.and)]

applyRLS(cfg, node, filters, ctx) ==
    LET rls == getRLSFilters(cfg, node, ctx)
    IN  IF rls.threw THEN rls
        ELSE IF KeyCount(rls.filters) = 0 THEN [threw |-> FALSE, filters |-> filters]
        ELSE IF KeyCount(filters) = 0 THEN rls
        ELSE [threw |-> FALSE, filters |-> Filters({}, <<filters, rls.filters>>)]

\* checkIntrospectionAccess: "ok" or the code of the error thrown
checkIntrospectionAccess(cfg, ctx) ==
    LET mode == IF cfg.introspection = NULL THEN "public" ELSE cfg.introspection
    IN  IF mode = "public" THEN "ok"
        ELSE IF mode = "disabled" THEN "INTROSPECTION_DISABLED"
        ELSE IF mode = "authenticated"
             THEN IF ctx.userId = NULL THEN "AUTHORIZATION_ERROR" ELSE "ok"
        ELSE IF mode = "throws" THEN RawError
        ELSE IF mode \in {"hasUser", "deny"}
             THEN IF CheckHolds(mode, ctx) THEN "ok" ELSE "INTROSPECTION_DISABLED"
        ELSE "ok"

----------------------------------------------------------------------------
(* Validator.validateOptions and QueryExecutor.normalizeOptions *)

\* the LimitsConfig of the model, with 1 <= defaultLimit <= maxLimit
ModelLimits == [defaultLimit |-> 2, maxLimit |-> 3, maxOffset |-> 2, maxIncludeDepth |-> 2]

\* a limit or offset given by a caller: undefined, a value Number() turns
\* into NaN or an infinity, or an integer
Undefined == [kind |-> "undefined", n |-> 0]
NonFinite == [kind |-> "nonfinite", n |-> 0]
Num(n) == [kind |-> "int", n |-> n]

Min(a, b) == IF a <= b THEN a ELSE b

\* QueryOptions: include is the list of include paths, each given by its
\* number of dotted segments; orderBy is "absent", "valid" (a string field
\* and asc or desc) or "invalid"
Options(limit, offset, include, orderBy) ==
    [limit |-> limit, offset |-> offset, include |-> include, orderBy |-> orderBy]

\* validateOptions, with an offset that is never capped
validateOptionsUncapped(options) ==
    [limit   |-> IF options.limit.kind # "int" \/ options.limit.n < 1
                 THEN ModelLimits.defaultLimit
                 ELSE Min(options.limit.n, ModelLimits.maxLimit),
     offset  |-> IF options.offset.kind # "int" \/ options.offset.n < 0
                 THEN 0 ELSE options.offset.n,
     include |-> options.include,
     orderBy |-> options.orderBy]

\* validateOptions(options) on an options object
validateOptions(options) ==
    [limit   |-> IF options.limit.kind = "undefined" THEN ModelLimits.defaultLimit
                 ELSE IF options.limit.kind = "nonfinite" \/ options.limit.n < 1
                      THEN ModelLimits.defaultLimit
                 ELSE Min(options.limit.n, ModelLimits.maxLimit),
     offset  |-> IF options.offset.kind = "undefined" THEN 0
                 ELSE IF options.offset.kind = "nonfinite" \/ options.offset.n < 0
                      THEN 0
                 ELSE Min(options.offset.n, ModelLimits.maxOffset),
     include |-> [i \in 1..Len(options.include) |->
                     Min(options.include[i], ModelLimits.maxIncludeDepth)],
     orderBy |-> IF options.orderBy = "valid" THEN "valid" ELSE "absent"]

\* normalizeOptions(options) of the executor, whose configuration has
\* defaultLimit, maxLimit and maxIncludeDepth
normalizeOptions(options) ==
    [limit   |-> IF options.limit.kind = "int" /\ options.limit.n > 0
                 THEN Min(options.limit.n, ModelLimits.maxLimit)
                 ELSE ModelLimits.defaultLimit,
     offset  |-> IF options.offset.kind = "int" /\ options.offset.n >= 0
                 THEN options.offset.n ELSE 0,
     include |-> [i \in 1..Len(options.include) |->
                     Min(options.include[i], ModelLimits.maxIncludeDepth)],
     orderBy |-> options.orderBy]

MaxNumber == 5

\* the limits and offsets callers give
Numbers == {Undefined, NonFinite} \cup {Num(n) : n \in (0 - MaxNumber)..MaxNumber}

OptionsInputs ==
    {Options(l, o, inc, ob) :
        l \in Numbers, o \in Numbers,
        inc \in {<<>>, <<1>>, <<ModelLimits.maxIncludeDepth + 1, 1>>},
        ob \in {"absent", "valid", "invalid"}}

\* an options object with no property set
NoOptions == Options(Undefined, Undefined, <<>>, "absent")

\* the options of a call that has not normalized them yet
NotNormalized == [limit |-> 0, offset |-> 0, include |-> <<>>, orderBy |-> "absent"]

----------------------------------------------------------------------------
(* One cursor over the test graph, driven by navigateTo, goBack and reset *)

MaxPathLen == 3
MaxSizeArg == 2

Op(op, arg, result) == [op |-> op, arg |-> arg, result |-> result]

\* the pool when it is not the component under study
IdleStore ==
    /\ cursors = <<>>
    /\ maxCursors = 0
    /\ cursorTTL = 0
    /\ now = 0
    /\ nextId = 1

\* the executor when it is not the component under study: no call made
IdleExec ==
    [pc |-> "idle", plugins |-> <<>>, hasCount |-> FALSE, node |-> NULL,
     query |-> NULL, filters |-> EmptyFilters, i |-> 0, log |-> <<>>,
     adapter |-> "idle", timer |-> "off", results |-> <<>>,
     data |-> <<>>, total |-> "undefined", countFailed |-> FALSE,
     options |-> NoOptions, normalized |-> NotNormalized, handed |-> NotNormalized,
     hasMore |-> FALSE, nextActions |-> <<>>,
     outcome |-> "pending"]

IdleExecutor == exec = IdleExec

\* the engine when it is not the component under study: no call in progress
IdleCall ==
    [phase |-> "idle", action |-> NULL, node |-> NULL, filters |-> EmptyFilters,
     query |-> NULL, cursorId |-> NoId, ctx |-> DefaultContext,
     secured |-> EmptyFilters, invoked |-> {}, handedExecute |-> EmptyFilters,
     handedCount |-> EmptyFilters, rewrote |-> FALSE, raised |-> "",
     thrown |-> "",
     outcome |-> "pending"]

\* handleToolCall calls that overlap
MaxCalls == 2

\* a handleToolCall of the engine that has not been made
IdleToolCall ==
    [pc |-> "idle", action |-> NULL, node |-> NULL, cursorId |-> NoId,
     outcome |-> "pending", seen |-> 0]

\* an engine on which neither initialize() nor refreshSchema() has run:
\* introspects and onInits count the calls of adapter.introspect() by
\* initialize() and of plugin.onInit(), timers the setInterval timers
\* started, interval tells whether schema.refreshInterval is configured,
\* refresh is the position of refreshSchema(), survivors the ids of the
\* cursors that were in the pool when the last refresh completed
IdleLife ==
    [introspects |-> 0, onInits |-> 0, timers |-> 0, interval |-> FALSE,
     refresh |-> "idle", survivors |-> {},
     calls |-> [k \in 1..MaxCalls |-> IdleToolCall]]

IdleEngine ==
    /\ initialized = FALSE
    /\ life = IdleLife
    /\ call = IdleCall

InitCursor ==
    /\ IdleExecutor
    /\ IdleEngine
    /\ IdleStore
    /\ secConfig = NoSecurity
    /\ schema = TestSchema
    /\ maxPathLength \in 1..MaxPathLen
    /\ \E start \in NodeNames \cup {NULL} :
          /\ cursor = NewCursor(schema, 1, start, 0)
          /\ lastOp = Op("new", start, "ok")

NavigateTo(nodeName) ==
    /\ cursor' = navigateTo(cursor, schema, nodeName, maxPathLength)
    /\ lastOp' = Op("navigateTo", nodeName,
                    IF HasNode(schema, nodeName) THEN "ok" ELSE "NODE_NOT_FOUND")
    /\ UNCHANGED <<schema, maxPathLength, storeVars, secConfig, engineVars, exec>>

GoBack ==
    /\ cursor' = goBack(cursor, schema)
    /\ lastOp' = Op("goBack", NULL, IF Len(cursor.path) <= 1 THEN "null" ELSE "ok")
    /\ UNCHANGED <<schema, maxPathLength, storeVars, secConfig, engineVars, exec>>

Reset ==
    /\ cursor' = reset(cursor)
    /\ lastOp' = Op("reset", NULL, "ok")
    /\ UNCHANGED <<schema, maxPathLength, storeVars, secConfig, engineVars, exec>>

GetNeighborhood(size) ==
    /\ lastOp' = Op("getNeighborhood", size, getNeighborhood(cursor, schema, size))
    /\ UNCHANGED <<schema, cursor, maxPathLength, storeVars, secConfig, engineVars, exec>>

NextCursor ==
    \/ \E nodeName \in NodeNames : NavigateTo(nodeName)
    \/ GoBack
    \/ Reset
    \/ \E size \in 0..MaxSizeArg \cup {DefaultNeighborLimit} : GetNeighborhood(size)

SpecCursor == InitCursor /\ [][NextCursor]_vars

----------------------------------------------------------------------------
(* CursorManager *)

PoolIds(cs) == {cs[i].id : i \in 1..Len(cs)}

PoolCursor(cs, id) == cs[CHOOSE i \in 1..Len(cs) : cs[i].id = id]

\* Map.prototype.delete
PoolDelete(cs, id) == SelectSeq(cs, LAMBDA c : c.id # id)

\* isExpired with the boundary off by one
isExpiredAtTTL(c, t, ttl) == t - c.createdAt >= ttl

isExpired(c, t, ttl) == t - c.createdAt > ttl

evictExpired(cs, t, ttl) == SelectSeq(cs, LAMBDA c : ~(t - c.createdAt > ttl))

\* the loop of evictOldest over entries i..: best is the index of the oldest
\* entry seen so far (0: none, oldestTime = Infinity)
RECURSIVE OldestFrom(_, _, _)
OldestFrom(cs, i, best) ==
    IF i > Len(cs) THEN best
    ELSE OldestFrom(cs, i + 1,
             IF best = 0 \/ cs[i].createdAt < cs[best].createdAt THEN i ELSE best)

\* evictOldest taking the last of the oldest entries (<= for <)
RECURSIVE LastOldestFrom(_, _, _)
LastOldestFrom(cs, i, best) ==
    IF i > Len(cs) THEN best
    ELSE LastOldestFrom(cs, i + 1,
             IF best = 0 \/ cs[i].createdAt <= cs[best].createdAt THEN i ELSE best)

evictLastOldest(cs) ==
    LET k == LastOldestFrom(cs, 1, 0)
    IN  IF k = 0 THEN cs ELSE SelectSeq(cs, LAMBDA c : c.id # cs[k].id)

evictOldest(cs) ==
    LET k == OldestFrom(cs, 1, 0)
    IN  IF k = 0 THEN cs ELSE PoolDelete(cs, cs[k].id)

\* create making room only when the pool is over capacity (> for >=)
createOverCapacity(cs, s, id, startNode, t, createdAt, cap, ttl) ==
    LET swept == evictExpired(cs, t, ttl)
        room  == IF Len(swept) > cap THEN evictOldest(swept) ELSE swept
    IN  Append(room, NewCursor(s, id, startNode, createdAt))

\* create(startNode): the sweep runs at time t, the constructor reads the
\* clock again at createdAt
create(cs, s, id, startNode, t, createdAt, cap, ttl) ==
    LET swept == evictExpired(cs, t, ttl)
        room  == IF Len(swept) >= cap THEN evictOldest(swept) ELSE swept
    IN  Append(room, NewCursor(s, id, startNode, createdAt))

\* get(id): the pool afterwards and the id of the cursor returned (NoId: undefined)
get(cs, id, t, ttl) ==
    IF id \in PoolIds(cs)
    THEN IF isExpired(PoolCursor(cs, id), t, ttl)
         THEN [pool |-> PoolDelete(cs, id), result |-> NoId]
         ELSE [pool |-> cs, result |-> id]
    ELSE [pool |-> cs, result |-> NoId]

\* getOrCreate reading the Map directly, without the expiry check of get
getOrCreateUnchecked(cs, s, id, newId, startNode, t, createdAt, cap, ttl) ==
    IF id # NoId /\ id \in PoolIds(cs)
    THEN [pool |-> cs, result |-> id, created |-> FALSE]
    ELSE [pool    |-> create(cs, s, newId, startNode, t, createdAt, cap, ttl),
          result  |-> newId,
          created |-> TRUE]

\* getOrCreate(id?, startNode?)
getOrCreate(cs, s, id, newId, startNode, t, createdAt, cap, ttl) ==
    LET got == IF id # NoId THEN get(cs, id, t, ttl)
               ELSE [pool |-> cs, result |-> NoId]
    IN  IF got.result # NoId
        THEN [pool |-> got.pool, result |-> got.result, created |-> FALSE]
        ELSE [pool    |-> create(got.pool, s, newId, startNode, t, createdAt, cap, ttl),
              result  |-> newId,
              created |-> TRUE]

----------------------------------------------------------------------------
(* The pool driven by create, get, getOrCreate, delete and clear, with the  *)
(* clock advancing between and inside the operations                        *)

MaxCapacity == 2
MaxTTL      == 1
MaxTime     == 3
MaxCreated  == 4

\* start nodes given to create and getOrCreate
StartNodes == {NULL, "User"}

\* the ids a caller can hold: every id handed out so far, and one never handed out
KnownIds == 0..(nextId - 1)

\* the cursor under study when the pool is
IdleCursor ==
    /\ maxPathLength = MaxPathLen
    /\ cursor = NewCursor(EmptySchema, 0, NULL, 0)

\* a pool operation, the id it was given, the id of the cursor it returned
\* (NoId: undefined), the size of the pool when it began and whether the id
\* was registered then
PoolOp(op, arg, result) ==
    [op |-> op, arg |-> arg, result |-> result,
     pre |-> Len(cursors), hit |-> arg \in PoolIds(cursors)]

InitStore ==
    /\ IdleExecutor
    /\ IdleEngine
    /\ IdleCursor
    /\ secConfig = NoSecurity
    /\ schema = TestSchema
    /\ cursors = <<>>
    /\ maxCursors \in 1..MaxCapacity
    /\ cursorTTL = MaxTTL
    /\ now = 0
    /\ nextId = 1
    /\ lastOp = PoolOp("new", NoId, NoId)

StoreFrame == UNCHANGED <<schema, cursorVars, maxCursors, cursorTTL, secConfig, engineVars, exec>>

Tick ==
    /\ now < MaxTime
    /\ now' = now + 1
    /\ lastOp' = PoolOp("tick", NoId, NoId)
    /\ UNCHANGED <<cursors, nextId>>
    /\ StoreFrame

Create(startNode, d) ==
    /\ nextId <= MaxCreated
    /\ now + d <= MaxTime
    /\ cursors' = create(cursors, schema, nextId, startNode, now, now + d,
                         maxCursors, cursorTTL)
    /\ nextId' = nextId + 1
    /\ now' = now + d
    /\ lastOp' = PoolOp("create", NoId, nextId)
    /\ StoreFrame

Get(id) ==
    /\ LET r == get(cursors, id, now, cursorTTL)
       IN  /\ cursors' = r.pool
           /\ lastOp' = PoolOp("get", id, r.result)
    /\ UNCHANGED <<now, nextId>>
    /\ StoreFrame

Delete(id) ==
    /\ cursors' = PoolDelete(cursors, id)
    /\ lastOp' = PoolOp("delete", id, IF id \in PoolIds(cursors) THEN id ELSE NoId)
    /\ UNCHANGED <<now, nextId>>
    /\ StoreFrame

GetOrCreate(id, startNode, d) ==
    /\ nextId <= MaxCreated
    /\ now + d <= MaxTime
    /\ LET r == getOrCreate(cursors, schema, id, nextId, startNode, now, now + d,
                            maxCursors, cursorTTL)
       IN  /\ cursors' = r.pool
           /\ lastOp' = PoolOp("getOrCreate", id, r.result)
           /\ nextId' = IF r.created THEN nextId + 1 ELSE nextId
           /\ now' = IF r.created THEN now + d ELSE now
    /\ StoreFrame

Clear ==
    /\ cursors' = <<>>
    /\ lastOp' = PoolOp("clear", NoId, NoId)
    /\ UNCHANGED <<now, nextId>>
    /\ StoreFrame

NextStore ==
    \/ Tick
    \/ \E startNode \in StartNodes, d \in 0..1 : Create(startNode, d)
    \/ \E id \in KnownIds : Get(id)
    \/ \E id \in KnownIds : Delete(id)
    \/ \E id \in KnownIds \cup {NoId}, startNode \in StartNodes, d \in 0..1 :
          GetOrCreate(id, startNode, d)
    \/ Clear

SpecStore == InitStore /\ [][NextStore]_vars

----------------------------------------------------------------------------
(* checkNodeAccess applied to every rule set, node, action and context *)

Roles == {"admin", "user"}

Contexts == {DefaultContext, Ctx("u1", {"admin"}), Ctx("u2", {"user"})}

AccessRules ==
    {Rule(roles, actions, check) :
        roles \in {{}, {"admin"}}, actions \in {{}, {"query"}},
        check \in {"absent", "hasUser", "deny"}}

\* nodeAccess with entries for any of Order and "*"
NodeAccessMaps ==
    {NoMap} \cup
    UNION {{MapOf(e) : e \in [keys -> AccessRules]} : keys \in SUBSET {"Order", "*"}}

\* node names a caller may pass to the security gate
GateNodeNames == {"User", "Order", "constructor"}

GateActions == {"explore", "navigate", "query"}

GateOp(op, node, action, ctx, result) ==
    [op |-> op, node |-> node, action |-> action, ctx |-> ctx, result |-> result]

InitSecurity ==
    /\ IdleExecutor
    /\ IdleEngine
    /\ IdleCursor
    /\ IdleStore
    /\ schema = EmptySchema
    /\ \E m \in NodeAccessMaps : secConfig = [NoSecurity EXCEPT !.nodeAccess = m]
    /\ lastOp = GateOp("new", NULL, NULL, DefaultContext, "ok")

CheckNodeAccess(node, action, ctx) ==
    /\ lastOp' = GateOp("checkNodeAccess", node, action, ctx,
                        checkNodeAccess(secConfig, node, action, ctx))
    /\ UNCHANGED <<schema, cursorVars, storeVars, secConfig, engineVars, exec>>

NextSecurity ==
    \E node \in GateNodeNames, action \in GateActions, ctx \in Contexts :
        CheckNodeAccess(node, action, ctx)

SpecSecurity == InitSecurity /\ [][NextSecurity]_vars

----------------------------------------------------------------------------
(* GQP: the engine and its single entry point handleToolCall *)

\* config.limits of the engine of the model, merged over DEFAULT_LIMITS
EngineLimits == [maxCursors |-> 1, cursorTTL |-> 1, maxCursorPathLength |-> 2]

\* config.sources: one adapter, registered under the name its nodes carry;
\* its introspect() returns the nodes of the test graph
Sources == {"test"}

\* names that match DEFAULT_VALIDATION.nodeNamePattern
Identifiers == {"User", "Order", "Product", "Ghost", "constructor"}

ValidActions == {"explore", "navigate", "query", "introspect"}

\* a validator that lets every action through
validateToolCallParamsLenient(p) == "ok"

\* validateToolCallParams on params whose query, filters, options and
\* cursorId are valid: "ok" or the code of the error thrown; an action of
\* NULL stands for a missing or non-string action
validateToolCallParams(p) ==
    IF p.action \in {NULL, ""} THEN "VALIDATION_ERROR"
    ELSE IF p.action \notin ValidActions THEN "INVALID_ACTION"
    ELSE IF p.action \in {"navigate", "query"} \/ p.node # NULL
         THEN IF p.node = NULL THEN "NODE_REQUIRED"
              ELSE IF p.node \notin Identifiers THEN "INVALID_NODE"
              ELSE "ok"
    ELSE "ok"

\* what the onPreQuery hook of the plugin returns when it rewrites filters
Rewrite(f) == Filters(f.conds \cup {"rewritten"}, f.and)

\* Map.prototype.set on a key the pool holds
PoolReplace(cs, c) == [i \in 1..Len(cs) |-> IF cs[i].id = c.id THEN c ELSE cs[i]]

Finish(c, outcome) == [c EXCEPT !.phase = "done", !.outcome = outcome]

\* the catch of handleToolCall: a GQPError is rethrown, anything else is
\* wrapped; thrown is the error that reached the catch and source names the
\* collaborator whose failure it was ("" when the engine raised the error
\* itself)
Reject(c, e, source) ==
    [Finish(c, IF isGQPError(e) THEN e ELSE wrapError(e))
        EXCEPT !.raised = source, !.thrown = e]

\* security configurations of the engines of the model
EngineSecurityConfigs ==
    { NoSecurity,
      [context |-> TRUE,
       nodeAccess |-> MapOf("*" :> Rule({"admin"}, {}, "absent")),
       rowLevelSecurity |-> MapOf(("Order" :> "tenant") @@ ("*" :> "ownerIfUser")),
       introspection |-> "authenticated"],
      [context |-> TRUE,
       nodeAccess |-> MapOf("User" :> Rule({}, {"navigate"}, "absent")),
       rowLevelSecurity |-> MapOf("User" :> "throws"),
       introspection |-> "hasUser"],
      [NoSecurity EXCEPT !.introspection = "disabled"],
      [NoSecurity EXCEPT !.introspection = "none"],
      [NoSecurity EXCEPT !.nodeAccess = MapOf("Order" :> Rule({}, {}, "throws")),
                         !.rowLevelSecurity = MapOf("User" :> "throws"),
                         !.introspection = "throws"] }

\* node names and filters of the calls of the model
CallNodes == {NULL, "User", "Order", "Ghost"}
CallFilters == {EmptyFilters, Filters({"status"}, <<>>)}

InitEngine ==
    /\ IdleExecutor
    /\ schema = EmptySchema
    /\ cursors = <<>>
    /\ maxCursors = EngineLimits.maxCursors
    /\ cursorTTL = EngineLimits.cursorTTL
    /\ maxPathLength = EngineLimits.maxCursorPathLength
    /\ cursor = NewCursor(EmptySchema, 0, NULL, 0)
    /\ now = 0
    /\ nextId = 1
    /\ secConfig \in EngineSecurityConfigs
    /\ IdleEngine
    /\ lastOp = Op("new", NULL, NULL)

EngineFrame == UNCHANGED <<lastOp, cursor, maxPathLength, maxCursors, cursorTTL, now, secConfig, exec, life>>

\* a caller invokes handleToolCall(params)
StartCall(action, node, filters, query, cursorId) ==
    /\ call.phase \in {"idle", "done"}
    /\ action = "navigate" /\ cursorId = NoId => nextId <= MaxCreated
    /\ call' = [IdleCall EXCEPT !.phase = "init", !.action = action, !.node = node,
                                !.filters = filters, !.query = query,
                                !.cursorId = cursorId]
    /\ UNCHANGED <<schema, cursors, nextId, initialized>>
    /\ EngineFrame

\* await this.ensureInitialized(): initialize() on an engine not yet
\* initialized, where the adapter's introspect() resolves or rejects
EnsureInitialized(introspectOk) ==
    /\ call.phase = "init"
    /\ IF initialized
       THEN /\ call' = [call EXCEPT !.phase = "validate"]
            /\ UNCHANGED <<schema, initialized>>
       ELSE IF introspectOk
       THEN /\ schema' = addNodes(schema, TestNodes)
            /\ initialized' = TRUE
            /\ call' = [call EXCEPT !.phase = "validate",
                          !.invoked = @ \cup {"adapter.introspect", "plugin.onInit"}]
       ELSE /\ call' = Reject([call EXCEPT !.invoked = @ \cup {"adapter.introspect"}],
                              RawError, "adapter")
            /\ UNCHANGED <<schema, initialized>>
    /\ UNCHANGED <<cursors, nextId>>
    /\ EngineFrame

\* this.validator.validateToolCallParams(params)
Validate ==
    /\ call.phase = "validate"
    /\ call' = IF validateToolCallParams(call) = "ok"
               THEN [call EXCEPT !.phase = "context"]
               ELSE Reject(call, validateToolCallParams(call), "")
    /\ UNCHANGED <<schema, cursors, nextId, initialized>>
    /\ EngineFrame

\* ctx = isEnabled() ? await getContext() : undefined, where the configured
\* provider returns c or throws; an undefined ctx is resolved to the
\* default context by each check
GetContext(c, providerOk) ==
    /\ call.phase = "context"
    /\ call' = IF isEnabled(secConfig) /\ secConfig.context
               THEN IF providerOk
                    THEN [call EXCEPT !.phase = "authorize", !.ctx = c]
                    ELSE Reject(call, "AUTHORIZATION_ERROR", "context provider")
               ELSE [call EXCEPT !.phase = "authorize"]
    /\ UNCHANGED <<schema, cursors, nextId, initialized>>
    /\ EngineFrame

\* the security checks of the action's case: checkNodeAccess, applyRLS,
\* checkIntrospectionAccess
Authorize ==
    /\ call.phase = "authorize"
    /\ LET access == checkNodeAccess(secConfig, call.node, call.action, call.ctx)
           rls    == applyRLS(secConfig, call.node, call.filters, call.ctx)
           intro  == checkIntrospectionAccess(secConfig, call.ctx)
           denier == IF access = RawError THEN "access predicate" ELSE ""
       IN  call' =
             CASE call.action = "navigate" ->
                    IF access # "ok" THEN Reject(call, access, denier)
                    ELSE [call EXCEPT !.phase = "perform"]
               [] call.action = "query" ->
                    IF access # "ok" THEN Reject(call, access, denier)
                    ELSE IF rls.threw
                         THEN Reject(call, "AUTHORIZATION_ERROR", "row-level-security function")
                    ELSE [call EXCEPT !.phase = "perform", !.secured = rls.filters]
               [] call.action = "introspect" ->
                    IF intro # "ok"
                    THEN Reject(call, intro,
                                IF intro = RawError THEN "introspection predicate" ELSE "")
                    ELSE [call EXCEPT !.phase = "perform"]
               [] OTHER -> [call EXCEPT !.phase = "perform"]
    /\ UNCHANGED <<schema, cursors, nextId, initialized>>
    /\ EngineFrame

\* explore() and introspect(): read the schema and return
Describe ==
    /\ call.phase = "perform"
    /\ call.action \in {"explore", "introspect"}
    /\ call' = Finish(call, "ok")
    /\ UNCHANGED <<schema, cursors, nextId, initialized>>
    /\ EngineFrame

\* navigate(node, cursorId)
Navigate ==
    /\ call.phase = "perform"
    /\ call.action = "navigate"
    /\ IF ~HasNode(schema, call.node)
       THEN /\ call' = Reject(call, "NODE_NOT_FOUND", "")
            /\ UNCHANGED <<cursors, nextId>>
       ELSE LET got == getOrCreate(cursors, schema, call.cursorId, nextId, NULL,
                                   now, now, maxCursors, cursorTTL)
                moved == navigateTo(PoolCursor(got.pool, got.result), schema,
                                    call.node, maxPathLength)
            IN  /\ cursors' = PoolReplace(got.pool, moved)
                /\ nextId' = IF got.created THEN nextId + 1 ELSE nextId
                /\ call' = Finish(call, "ok")
    /\ UNCHANGED <<schema, initialized>>
    /\ EngineFrame

\* the pool after query() has moved the cursor of the call, if it has one,
\* to the queried node
CursorFollowsQuery(cs, s, id, nodeName, t, ttl, maxLen) ==
    IF id = NoId THEN cs
    ELSE LET got == get(cs, id, t, ttl)
         IN  IF got.result # NoId /\ PoolCursor(got.pool, id).currentNode # nodeName
             THEN PoolReplace(got.pool,
                              navigateTo(PoolCursor(got.pool, id), s, nodeName, maxLen))
             ELSE got.pool

\* query(node, query, filters, options, cursorId) through the executor:
\* executeWithSearch when a query string is given, then execute.  The
\* plugin's onPreQuery rewrites the filters or returns them as they are;
\* adapter.execute resolves ("rows"), rejects ("throws") or is overtaken
\* by the timer ("timeout"); or the first onPreQuery invoked throws
\* ("hookThrows").
Query(rewrite, result) ==
    /\ call.phase = "perform"
    /\ call.action = "query"
    /\ IF ~HasNode(schema, call.node)
       THEN /\ call' = Reject(call, "NODE_NOT_FOUND", "")
            /\ UNCHANGED cursors
       ELSE LET searched  == IF call.query # NULL /\ rewrite
                             THEN Rewrite(call.secured) ELSE call.secured
                hooked    == IF call.query # NULL THEN {"plugin.onPreQuery"} ELSE {}
                processed == IF rewrite THEN Rewrite(searched) ELSE searched
                ran       == [call EXCEPT
                                !.invoked = @ \cup hooked \cup
                                            {"plugin.onPreQuery", "adapter.execute"},
                                !.rewrote = rewrite,
                                !.handedExecute = processed]
            IN  /\ cursors' = CursorFollowsQuery(cursors, schema, call.cursorId,
                                                 call.node, now, cursorTTL, maxPathLength)
                /\ call' =
                     IF getNode(schema, call.node).source \notin Sources
                     THEN Reject([call EXCEPT !.invoked = @ \cup hooked,
                                              !.rewrote = rewrite /\ hooked # {}],
                                 "ADAPTER_NOT_FOUND", "")
                     ELSE IF result = "hookThrows"
                     THEN Reject([call EXCEPT !.invoked = @ \cup {"plugin.onPreQuery"}],
                                 RawError, "plugin")
                     ELSE IF result = "throws" THEN Reject(ran, RawError, "adapter")
                     ELSE IF result = "timeout" THEN Reject(ran, "TIMEOUT_ERROR", "")
                     ELSE Finish([ran EXCEPT
                                    !.invoked = @ \cup {"plugin.onPostQuery", "adapter.count"},
                                    !.handedCount = processed],
                                 "ok")
    /\ UNCHANGED <<schema, nextId, initialized>>
    /\ EngineFrame

NextEngine ==
    \/ StartCall("explore", NULL, EmptyFilters, NULL, NoId)
    \/ StartCall("introspect", NULL, EmptyFilters, NULL, NoId)
    \/ StartCall("drop", NULL, EmptyFilters, NULL, NoId)
    \/ StartCall("", NULL, EmptyFilters, NULL, NoId)
    \/ \E node \in CallNodes, id \in {NoId} \cup PoolIds(cursors) :
           StartCall("navigate", node, EmptyFilters, NULL, id)
    \/ \E node \in CallNodes, f \in CallFilters, q \in {NULL, "recent"},
          id \in {NoId} \cup PoolIds(cursors) :
           StartCall("query", node, f, q, id)
    \/ \E introspectOk \in BOOLEAN : EnsureInitialized(introspectOk)
    \/ Validate
    \/ \E c \in Contexts, providerOk \in BOOLEAN : GetContext(c, providerOk)
    \/ Authorize
    \/ Describe
    \/ Navigate
    \/ \E rewrite \in BOOLEAN, result \in {"rows", "throws", "timeout", "hookThrows"} :
           Query(rewrite, result)

SpecEngine == InitEngine /\ [][NextEngine]_vars

----------------------------------------------------------------------------
(* Hidden nodes and fields: explore, navigate and introspect of the engine *)

\* Field names and patterns are sequences of characters; "*" is the
\* wildcard of a pattern.

\* the simple case folding of the RegExp flag i
LowerCase(ch) == IF ch = "A" THEN "a" ELSE IF ch = "B" THEN "b" ELSE ch

\* new RegExp("^" + pattern.split("*").map(escape).join(".*") + "$", "i")
\* .test(name): every segment between two "*" is matched literally under
\* case folding and every "*" stands for a run of characters
RECURSIVE RegexTest(_, _)
RegexTest(name, pattern) ==
    IF pattern = <<>> THEN name = <<>>
    ELSE IF Head(pattern) = "*"
         THEN \/ RegexTest(name, Tail(pattern))
              \/ name # <<>> /\ RegexTest(Tail(name), pattern)
         ELSE /\ name # <<>>
              /\ LowerCase(Head(name)) = LowerCase(Head(pattern))
              /\ RegexTest(Tail(name), Tail(pattern))

\* SecurityManager.matchPattern
matchPattern(name, pattern) ==
    IF pattern = name THEN TRUE
    ELSE IF ~Contains(pattern, "*") THEN FALSE
    ELSE RegexTest(name, pattern)

\* SecurityManager.isFieldHidden
isFieldHidden(config, fieldName) ==
    \E i \in 1..Len(config.hiddenFields) :
        matchPattern(fieldName, config.hiddenFields[i])

\* SecurityManager.isNodeHidden
isNodeHidden(config, nodeName) == Contains(config.hiddenNodes, nodeName)

VisibleField(config, field) == ~isFieldHidden(config, field.name)

\* SecurityManager.filterHiddenFields
filterHiddenFields(config, node) ==
    IF Len(config.hiddenFields) = 0 THEN node
    ELSE [node EXCEPT !.fields = SelectSeq(@, LAMBDA f : VisibleField(config, f))]

\* features.neighborhoodSize || 5 of explore
NeighborhoodSize == 5

\* Array.prototype.filter over the nodes that are not hidden
RECURSIVE VisibleNodes(_, _)
VisibleNodes(config, nodes) ==
    IF nodes = <<>> THEN <<>>
    ELSE IF isNodeHidden(config, Head(nodes).name)
         THEN VisibleNodes(config, Tail(nodes))
         ELSE <<Head(nodes)>> \o VisibleNodes(config, Tail(nodes))

\* GQP.explore
explore(config, s) ==
    LET rootNodes == VisibleNodes(config,
                        [i \in 1..Len(getRootNodes(s)) |-> getNode(s, getRootNodes(s)[i])])
        shown     == Slice(rootNodes, NeighborhoodSize)
    IN  [availableNodes |-> [i \in 1..Len(shown) |-> shown[i].name],
         totalNodes     |-> Len(rootNodes)]

\* GQP.introspect
introspect(config, s) ==
    LET nodes == VisibleNodes(config, s.nodes)
    IN  [nodes |-> [i \in 1..Len(nodes) |-> filterHiddenFields(config, nodes[i])]]

\* the NavigateResult that GQP.navigate builds from the cursor it has moved
NavigateResult(config, s, moved) ==
    LET node == filterHiddenFields(config, getNode(s, moved.currentNode))
    IN  [currentNode  |-> node.name,
         fields       |-> [i \in 1..Len(node.fields) |-> node.fields[i].name],
         relatedNodes |-> node.edges,
         capabilities |-> node.capabilities,
         path         |-> moved.path]

Field(name) == [name |-> name, type |-> "string"]

\* patterns of hiddenFields
FieldPatterns ==
    {<<"a">>, <<"A">>, <<"*">>, <<"a", "*">>, <<"A", "*">>, <<"*", "b">>,
     <<"a", "b">>}

\* what the adapter introspects: the nodes of the test graph with fields
\* and capabilities
FieldNodes ==
    << [name |-> "User", source |-> "test",
        edges |-> <<Edge("Order", "hasMany")>>,
        fields |-> <<Field(<<"a">>), Field(<<"A">>), Field(<<"a", "b">>)>>,
        capabilities |-> <<"filter">>],
       [name |-> "Order", source |-> "test",
        edges |-> <<Edge("User", "belongsTo"), Edge("Product", "hasMany")>>,
        fields |-> <<Field(<<"A">>), Field(<<"a", "b">>)>>,
        capabilities |-> <<"filter", "fuzzy_search">>],
       [name |-> "Product", source |-> "test", edges |-> <<>>,
        fields |-> <<Field(<<"b">>)>>,
        capabilities |-> <<>>] >>

HiddenNodeLists == {<<>>, <<"Order">>, <<"Ghost">>, <<"User", "Product">>}
HiddenFieldLists == {<<>>} \cup {<<p>> : p \in FieldPatterns}

\* an initialized engine without access rules, with hiddenNodes and
\* hiddenFields configured
InitHidden ==
    /\ IdleExecutor
    /\ schema = addNodes(EmptySchema, FieldNodes)
    /\ cursors = <<>>
    /\ maxCursors = EngineLimits.maxCursors
    /\ cursorTTL = EngineLimits.cursorTTL
    /\ maxPathLength = EngineLimits.maxCursorPathLength
    /\ cursor = NewCursor(EmptySchema, 0, NULL, 0)
    /\ now = 0
    /\ nextId = 1
    /\ \E hn \in HiddenNodeLists, hf \in HiddenFieldLists :
           secConfig = [context |-> FALSE, nodeAccess |-> NoMap,
                        rowLevelSecurity |-> NoMap, introspection |-> NULL,
                        hiddenNodes |-> hn, hiddenFields |-> hf]
    /\ initialized = TRUE
    /\ call = IdleCall
    /\ life = IdleLife
    /\ lastOp = Op("new", NULL, NULL)

HiddenFrame ==
    UNCHANGED <<schema, cursor, maxPathLength, maxCursors, cursorTTL, now,
                secConfig, initialized, call, life, exec>>

\* handleToolCall({action: "explore"})
Explore ==
    /\ lastOp' = Op("explore", NULL, explore(secConfig, schema))
    /\ UNCHANGED <<cursors, nextId>>
    /\ HiddenFrame

\* handleToolCall({action: "introspect"})
Introspect ==
    /\ lastOp' = Op("introspect", NULL, introspect(secConfig, schema))
    /\ UNCHANGED <<cursors, nextId>>
    /\ HiddenFrame

\* handleToolCall({action: "navigate", node, cursorId})
NavigateNode(node, cursorId) ==
    /\ cursorId = NoId => nextId <= MaxCreated
    /\ IF ~HasNode(schema, node)
       THEN /\ lastOp' = Op("navigate", node, "NODE_NOT_FOUND")
            /\ UNCHANGED <<cursors, nextId>>
       ELSE LET got == getOrCreate(cursors, schema, cursorId, nextId, NULL,
                                   now, now, maxCursors, cursorTTL)
                moved == navigateTo(PoolCursor(got.pool, got.result), schema,
                                    node, maxPathLength)
            IN  /\ cursors' = PoolReplace(got.pool, moved)
                /\ nextId' = IF got.created THEN nextId + 1 ELSE nextId
                /\ lastOp' = Op("navigate", node,
                                NavigateResult(secConfig, schema, moved))
    /\ HiddenFrame

NextHidden ==
    \/ Explore
    \/ Introspect
    \/ \E node \in NodeNames, id \in {NoId} \cup PoolIds(cursors) :
           NavigateNode(node, id)

SpecHidden == InitHidden /\ [][NextHidden]_vars

----------------------------------------------------------------------------
(* GQP: initialization, schema refresh and overlapping handleToolCall calls *)

\* nodes and actions of the calls; every params object is valid and no
\* security is configured
LifeNodes == {"User", "Order"}

\* cursors created by the calls
MaxLifeCursors == 2

InitLife ==
    /\ IdleExecutor
    /\ schema = EmptySchema
    /\ cursors = <<>>
    /\ maxCursors = EngineLimits.maxCursors
    /\ cursorTTL = EngineLimits.cursorTTL
    /\ maxPathLength = EngineLimits.maxCursorPathLength
    /\ cursor = NewCursor(EmptySchema, 0, NULL, 0)
    /\ now = 0
    /\ nextId = 1
    /\ secConfig = NoSecurity
    /\ initialized = FALSE
    /\ call = IdleCall
    /\ \E interval \in BOOLEAN : life = [IdleLife EXCEPT !.interval = interval]
    /\ lastOp = Op("new", NULL, NULL)

LifeFrame ==
    UNCHANGED <<cursor, maxPathLength, maxCursors, cursorTTL, now, secConfig,
                call, exec>>

\* the navigate calls in flight
Navigating == {k \in 1..MaxCalls : /\ life.calls[k].pc \notin {"idle", "done"}
                                    /\ life.calls[k].action = "navigate"}

\* handleToolCall after ensureInitialized(): validation, the switch and
\* the action of call c, which reads the schema; none of them waits for a
\* timer or for I/O, so they run as one step.  base is the life record the
\* step starts from.
Perform(k, base, c) ==
    LET done(outcome, seen) ==
            [base EXCEPT !.calls[k] = [c EXCEPT !.pc = "done",
                                                !.outcome = outcome,
                                                !.seen = seen]]
    IN  IF c.action = "explore"
        THEN /\ life' = done("ok", Len(getRootNodes(schema)))
             /\ UNCHANGED <<cursors, nextId>>
        ELSE IF ~HasNode(schema, c.node)
        THEN /\ life' = done("NODE_NOT_FOUND", 0)
             /\ UNCHANGED <<cursors, nextId>>
        ELSE LET got == getOrCreate(cursors, schema, c.cursorId, nextId, NULL,
                                    now, now, maxCursors, cursorTTL)
                 moved == navigateTo(PoolCursor(got.pool, got.result), schema,
                                     c.node, maxPathLength)
             IN  /\ cursors' = PoolReplace(got.pool, moved)
                 /\ nextId' = IF got.created THEN nextId + 1 ELSE nextId
                 /\ life' = done("ok", 0)

\* a caller invokes handleToolCall(params): on an initialized engine
\* ensureInitialized() returns and the call is performed; otherwise
\* initialize() calls adapter.introspect() and awaits it
BeginCall(k, action, node, cursorId) ==
    /\ life.calls[k].pc \in {"idle", "done"}
    /\ action = "navigate" => nextId + Cardinality(Navigating) <= MaxLifeCursors
    /\ LET begun == [IdleToolCall EXCEPT !.action = action, !.node = node,
                                         !.cursorId = cursorId]
       IN  IF initialized
           THEN Perform(k, life, begun)
           ELSE /\ life' = [life EXCEPT !.calls[k] = [begun EXCEPT !.pc = "introspect"],
                                        !.introspects = @ + 1]
                /\ UNCHANGED <<cursors, nextId>>
    /\ UNCHANGED <<schema, initialized, lastOp>>
    /\ LifeFrame

\* initialize(): adapter.introspect() resolves, the nodes are added and
\* plugin.onInit(this) is called and awaited
IntrospectResolves(k) ==
    /\ life.calls[k].pc = "introspect"
    /\ schema' = addNodes(schema, TestNodes)
    /\ life' = [life EXCEPT !.calls[k].pc = "onInit", !.onInits = @ + 1]
    /\ UNCHANGED <<cursors, nextId, initialized, lastOp>>
    /\ LifeFrame

\* initialize(): plugin.onInit resolves, the refresh timer is started when
\* an interval is configured and initialized is set; handleToolCall then
\* performs the call
OnInitResolves(k) ==
    /\ life.calls[k].pc = "onInit"
    /\ initialized' = TRUE
    /\ Perform(k, [life EXCEPT !.timers = IF life.interval THEN @ + 1 ELSE @],
               life.calls[k])
    /\ UNCHANGED <<schema, lastOp>>
    /\ LifeFrame

\* refreshSchema() that also empties the cursor pool, as destroy() does
RefreshSchemaDroppingCursors ==
    /\ life.timers > 0
    /\ life.refresh = "idle"
    /\ schema' = clear(schema)
    /\ cursors' = <<>>
    /\ life' = [life EXCEPT !.refresh = "introspect"]
    /\ UNCHANGED <<nextId, initialized, lastOp>>
    /\ LifeFrame

\* a refresh timer fires: refreshSchema() clears the schema, calls
\* adapter.introspect() and awaits it
RefreshSchema ==
    /\ life.timers > 0
    /\ life.refresh = "idle"
    /\ schema' = clear(schema)
    /\ life' = [life EXCEPT !.refresh = "introspect"]
    /\ UNCHANGED <<cursors, nextId, initialized, lastOp>>
    /\ LifeFrame

\* refreshSchema(): adapter.introspect() resolves and the nodes are added
RefreshResolves ==
    /\ life.refresh = "introspect"
    /\ schema' = addNodes(schema, TestNodes)
    /\ life' = [life EXCEPT !.refresh = "idle", !.survivors = PoolIds(cursors)]
    /\ lastOp' = Op("refreshSchema", NULL, NULL)
    /\ UNCHANGED <<cursors, nextId, initialized>>
    /\ LifeFrame

\* getCursor(id).goBack()
CursorGoBack(id) ==
    /\ id \in PoolIds(cursors)
    /\ LET got == get(cursors, id, now, cursorTTL)
       IN  /\ got.result # NoId
           /\ cursors' = PoolReplace(got.pool, goBack(PoolCursor(got.pool, id), schema))
    /\ lastOp' = Op("goBack", id, NULL)
    /\ UNCHANGED <<schema, nextId, initialized, life>>
    /\ LifeFrame

\* getCursor(id).reset()
CursorReset(id) ==
    /\ id \in PoolIds(cursors)
    /\ LET got == get(cursors, id, now, cursorTTL)
       IN  /\ got.result # NoId
           /\ cursors' = PoolReplace(got.pool, reset(PoolCursor(got.pool, id)))
    /\ lastOp' = Op("reset", id, NULL)
    /\ UNCHANGED <<schema, nextId, initialized, life>>
    /\ LifeFrame

NextLife ==
    \/ \E k \in 1..MaxCalls : BeginCall(k, "explore", NULL, NoId)
    \/ \E k \in 1..MaxCalls, node \in LifeNodes, id \in {NoId} \cup PoolIds(cursors) :
           BeginCall(k, "navigate", node, id)
    \/ \E k \in 1..MaxCalls : IntrospectResolves(k)
    \/ \E k \in 1..MaxCalls : OnInitResolves(k)
    \/ RefreshSchema
    \/ RefreshResolves

SpecLife == InitLife /\ [][NextLife]_vars

\* an engine that initialize() has initialized with a refresh interval
\* configured: the schema is built and one timer runs
InitRefresh ==
    /\ IdleExecutor
    /\ schema = TestSchema
    /\ cursors = <<>>
    /\ maxCursors = EngineLimits.maxCursors
    /\ cursorTTL = EngineLimits.cursorTTL
    /\ maxPathLength = EngineLimits.maxCursorPathLength
    /\ cursor = NewCursor(EmptySchema, 0, NULL, 0)
    /\ now = 0
    /\ nextId = 1
    /\ secConfig = NoSecurity
    /\ initialized = TRUE
    /\ call = IdleCall
    /\ life = [IdleLife EXCEPT !.interval = TRUE, !.introspects = 1,
                               !.onInits = 1, !.timers = 1]
    /\ lastOp = Op("new", NULL, NULL)

\* navigate calls one after the other, the cursors they create used through
\* getCursor, and the refresh timer
NextRefresh ==
    \/ \E node \in LifeNodes, id \in {NoId} \cup PoolIds(cursors) :
           BeginCall(1, "navigate", node, id)
    \/ RefreshSchema
    \/ RefreshResolves
    \/ \E id \in PoolIds(cursors) : CursorGoBack(id)
    \/ \E id \in PoolIds(cursors) : CursorReset(id)

SpecRefresh == InitRefresh /\ [][NextRefresh]_vars

----------------------------------------------------------------------------
(* QueryExecutor: execute and executeWithSearch, one suspension point per step *)

MaxPlugins == 2

\* a GQPPlugin: which of the optional query hooks it defines
Plugin(pre, translate, post) ==
    [onPreQuery |-> pre, translateFilter |-> translate, onPostQuery |-> post]

Plugins == {Plugin(a, b, c) : a \in BOOLEAN, b \in BOOLEAN, c \in BOOLEAN}

\* the plugin lists of the model, in registration order
PluginLists == UNION {[1..n -> Plugins] : n \in 0..MaxPlugins}

\* the field names of the nodes of the model
FieldNames == {"status"}

MaxRows == 4

\* what the adapter's execute may resolve with: up to one row more than
\* maxLimit
AdapterRows == {[i \in 1..n |-> "row"] : n \in 0..MaxRows}

\* an entry of nextActions: the kind of the suggestion and, for a
\* suggestion to navigate to a related node, the target of the edge
Suggestion(kind, to) == [kind |-> kind, to |-> to]

\* suggestNextActions(node, results)
suggestNextActions(node, results) ==
    IF Len(results) = 0
    THEN <<Suggestion("tryDifferent", NULL), Suggestion("navigateAway", NULL)>>
    ELSE LET edges == Slice(node.edges, 2)
         IN  [i \in 1..Len(edges) |-> Suggestion("navigateTo", edges[i].to)]
             \o (IF Len(results) >= ModelLimits.defaultLimit
                 THEN <<Suggestion("addFilters", NULL)>> ELSE <<>>)

\* a hasMore that is set from the limit on
hasMoreFromLimitOn(results, normalizedOptions) == Len(results) >= normalizedOptions.limit

\* meta.hasMore
hasMore(results, normalizedOptions) == Len(results) = normalizedOptions.limit

\* the QueryResult of execute, short of meta.total
WithResult(e) ==
    [e EXCEPT !.data = e.results,
              !.hasMore = hasMore(e.results, e.normalized),
              !.nextActions = suggestNextActions(getNode(schema, e.node), e.results)]

\* an invocation of a plugin hook or adapter method: plugin is the position
\* of the plugin in the list (0 for the adapter), query the context.query
\* the hook is given
Event(hook, plugin, query) == [hook |-> hook, plugin |-> plugin, query |-> query]

Logged(e, hook, plugin, query) == [e EXCEPT !.log = Append(@, Event(hook, plugin, query))]

Settle(e, outcome) == [e EXCEPT !.pc = "done", !.outcome = outcome]

\* the entry of execute(): node and adapter lookup, then the plugin loop
ExecuteEntry(e) ==
    IF ~HasNode(schema, e.node) THEN Settle(e, "NODE_NOT_FOUND")
    ELSE IF getNode(schema, e.node).source \notin Sources
         THEN Settle(e, "ADAPTER_NOT_FOUND")
    ELSE IF e.plugins = <<>>
         THEN [e EXCEPT !.pc = "dispatch", !.normalized = normalizeOptions(e.options)]
    ELSE [e EXCEPT !.pc = "pre", !.i = 1, !.normalized = normalizeOptions(e.options)]

\* a node whose source names no adapter of the executor
OrphanNode == [name |-> "Audit", source |-> "archive", edges |-> <<>>]

\* the schema the executor is constructed with
ExecutorSchema == addNode(TestSchema, OrphanNode, TRUE)

InitExecutor ==
    /\ IdleCursor
    /\ IdleStore
    /\ IdleEngine
    /\ secConfig = NoSecurity
    /\ schema = ExecutorSchema
    /\ lastOp = Op("new", NULL, NULL)
    /\ \E ps \in PluginLists, hasCount \in BOOLEAN, node \in {"Order", "Ghost", "Audit"},
          q \in {NULL, "recent"}, f \in {EmptyFilters, Filters({"status"}, <<>>)} :
          exec = [IdleExec EXCEPT !.pc = "call", !.plugins = ps, !.hasCount = hasCount,
                                  !.node = node, !.query = q, !.filters = f]

ExecutorFrame == UNCHANGED <<schema, lastOp, cursorVars, storeVars, secConfig, engineVars>>

\* the call: executeWithSearch(node, query, filters) when a query string is
\* given, execute(node, filters) otherwise
Call ==
    /\ exec.pc = "call"
    /\ exec' = IF exec.query = NULL THEN ExecuteEntry(exec)
               ELSE IF ~HasNode(schema, exec.node) THEN Settle(exec, "NODE_NOT_FOUND")
               ELSE [exec EXCEPT !.pc = "search", !.i = 1]
    /\ ExecutorFrame

\* executeWithSearch: the loop over the plugins, awaiting the onPreQuery of
\* plugin i, whose context carries the query string; then execute()
SearchPreQuery(rewrite) ==
    /\ exec.pc = "search"
    /\ exec' =
         IF exec.i > Len(exec.plugins) THEN ExecuteEntry(exec)
         ELSE IF exec.plugins[exec.i].onPreQuery
         THEN [Logged(exec, "onPreQuery", exec.i, exec.query) EXCEPT
                  !.i = @ + 1,
                  !.filters = IF rewrite THEN Rewrite(@) ELSE @]
         ELSE [exec EXCEPT !.i = @ + 1]
    /\ ExecutorFrame

\* execute: the onPreQuery of plugin i, whose context carries no query
PreQuery(rewrite) ==
    /\ exec.pc = "pre"
    /\ exec' =
         IF exec.plugins[exec.i].onPreQuery
         THEN [Logged(exec, "onPreQuery", exec.i, NULL) EXCEPT
                  !.pc = "translate",
                  !.filters = IF rewrite THEN Rewrite(@) ELSE @]
         ELSE [exec EXCEPT !.pc = "translate"]
    /\ ExecutorFrame

\* execute: translateFilters with plugin i, which calls the plugin's
\* translateFilter for the filter keys that name a field of the node and
\* keeps every key; then the next plugin, or the dispatch
Translate ==
    /\ exec.pc = "translate"
    /\ LET called == exec.plugins[exec.i].translateFilter
                       /\ exec.filters.conds \cap FieldNames # {}
           after  == IF called THEN Logged(exec, "translateFilter", exec.i, NULL) ELSE exec
       IN  exec' = IF exec.i < Len(exec.plugins)
                   THEN [after EXCEPT !.pc = "pre", !.i = @ + 1]
                   ELSE [after EXCEPT !.pc = "dispatch"]
    /\ ExecutorFrame

\* executeWithTimeout(adapter.execute(...), timeout): the adapter call is
\* started and the timer armed
Dispatch ==
    /\ exec.pc = "dispatch"
    /\ exec' = [Logged(exec, "execute", 0, NULL) EXCEPT
                  !.pc = "race", !.adapter = "pending", !.timer = "armed",
                  !.handed = exec.normalized]
    /\ ExecutorFrame

\* the timer fires before the adapter has settled: reject with TIMEOUT_ERROR
TimerFires ==
    /\ exec.pc = "race"
    /\ exec.timer = "armed"
    /\ exec' = [Settle(exec, "TIMEOUT_ERROR") EXCEPT !.timer = "fired"]
    /\ ExecutorFrame

\* an adapter result that is used whether or not the timer has fired
AdapterResolvesUnguarded(rows) ==
    /\ exec.adapter = "pending"
    /\ exec' = [exec EXCEPT !.adapter = "resolved", !.results = rows,
                            !.pc = "post", !.i = 1, !.outcome = "pending"]
    /\ ExecutorFrame

\* the adapter's promise resolves: clearTimeout and resolve, which does
\* nothing to a promise the timer has already rejected
AdapterResolves(rows) ==
    /\ exec.adapter = "pending"
    /\ exec' = IF exec.timer = "armed"
               THEN [exec EXCEPT !.adapter = "resolved", !.timer = "cleared",
                                 !.results = rows, !.pc = "post", !.i = 1]
               ELSE [exec EXCEPT !.adapter = "resolved"]
    /\ ExecutorFrame

\* the adapter's promise rejects: clearTimeout and reject with its error
AdapterRejects ==
    /\ exec.adapter = "pending"
    /\ exec' = IF exec.timer = "armed"
               THEN [Settle(exec, "ADAPTER_ERROR") EXCEPT
                        !.adapter = "rejected", !.timer = "cleared"]
               ELSE [exec EXCEPT !.adapter = "rejected"]
    /\ ExecutorFrame

\* execute: the onPostQuery of plugin i over the results, which it returns
\* as they are or changed
PostQuery(change) ==
    /\ exec.pc = "post"
    /\ exec.i <= Len(exec.plugins)
    /\ exec' =
         IF exec.plugins[exec.i].onPostQuery
         THEN [Logged(exec, "onPostQuery", exec.i, NULL) EXCEPT
                  !.i = @ + 1,
                  !.results = IF change THEN <<"enriched">> \o @ ELSE @]
         ELSE [exec EXCEPT !.i = @ + 1]
    /\ ExecutorFrame

\* execute: after the last onPostQuery, adapter.count is called when the
\* adapter has one and awaited; without one the result is returned
AwaitCount ==
    /\ exec.pc = "post"
    /\ exec.i > Len(exec.plugins)
    /\ exec' = IF exec.hasCount
               THEN [Logged(exec, "count", 0, NULL) EXCEPT !.pc = "count"]
               ELSE Settle(WithResult(exec), "ok")
    /\ ExecutorFrame

\* adapter.count awaited outside any try/catch
CountUncaught(countOk) ==
    /\ exec.pc = "count"
    /\ exec' = IF ~countOk
               THEN [Settle(exec, "ADAPTER_ERROR") EXCEPT !.countFailed = TRUE]
               ELSE [Settle(WithResult(exec), "ok") EXCEPT !.total = "counted"]
    /\ ExecutorFrame

\* execute: the promise of adapter.count settles inside try/catch, then the
\* result is returned
Count(countOk) ==
    /\ exec.pc = "count"
    /\ exec' = [Settle(WithResult(exec), "ok") EXCEPT
                  !.countFailed = ~countOk,
                  !.total = IF countOk THEN "counted" ELSE "undefined"]
    /\ ExecutorFrame

NextExecutor ==
    \/ Call
    \/ \E rewrite \in BOOLEAN : SearchPreQuery(rewrite)
    \/ \E rewrite \in BOOLEAN : PreQuery(rewrite)
    \/ Translate
    \/ Dispatch
    \/ TimerFires
    \/ \E rows \in AdapterRows : AdapterResolves(rows)
    \/ AdapterRejects
    \/ \E change \in BOOLEAN : PostQuery(change)
    \/ AwaitCount
    \/ \E countOk \in BOOLEAN : Count(countOk)

SpecExecutor == InitExecutor /\ [][NextExecutor]_vars

\* the limits and offsets of the options callers of execute give
ExecutorOptions == {Options(l, o, <<>>, "absent") : l \in Numbers, o \in Numbers}

\* execute and executeWithSearch on Order with every options object, with
\* no plugin or with one that defines every hook
InitResult ==
    /\ IdleCursor
    /\ IdleStore
    /\ IdleEngine
    /\ secConfig = NoSecurity
    /\ schema = TestSchema
    /\ lastOp = Op("new", NULL, NULL)
    /\ \E ps \in {<<>>, <<Plugin(TRUE, TRUE, TRUE)>>}, q \in {NULL, "recent"},
          options \in ExecutorOptions :
          exec = [IdleExec EXCEPT !.pc = "call", !.plugins = ps, !.hasCount = TRUE,
                                  !.node = "Order", !.query = q,
                                  !.filters = Filters({"status"}, <<>>),
                                  !.options = options]

SpecResult == InitResult /\ [][NextExecutor]_vars

\* the steps of a call that the executor takes by itself, once a plugin hook
\* that terminates has returned: every step but the settling of the promises
\* of the adapter
ExecutorSteps ==
    \/ Call
    \/ \E rewrite \in BOOLEAN : SearchPreQuery(rewrite)
    \/ \E rewrite \in BOOLEAN : PreQuery(rewrite)
    \/ Translate
    \/ Dispatch
    \/ \E change \in BOOLEAN : PostQuery(change)
    \/ AwaitCount

\* the executor with plugin hooks that terminate and a timer that fires when
\* it is left armed; the promises of adapter.execute and adapter.count
\* settle or stay pending
SpecExecutorLive ==
    /\ InitExecutor
    /\ [][NextExecutor]_vars
    /\ WF_vars(ExecutorSteps)
    /\ WF_vars(TimerFires)

----------------------------------------------------------------------------
(* Validator: validateFilters and validateNestedFilter *)

\* JSON values: a primitive, an array of values, or an object, whose items
\* are its entries [k, v] in insertion order
Prim == [t |-> "prim", items |-> <<>>]
Arr(items) == [t |-> "arr", items |-> items]
Obj(entries) == [t |-> "obj", items |-> entries]
Entry(k, v) == [k |-> k, v |-> v]

\* the ValidationConfig of the validator of the model
ModelValidation ==
    [strictNodeNames |-> TRUE, allowedFilterOperators |-> {"gt"},
     maxArrayInFilter |-> 1, maxFilterDepth |-> 1]

LogicalKeys == {"AND", "OR", "NOT"}

\* keys that match /^[a-zA-Z_][a-zA-Z0-9_]*$/
IdentifierKeys == {"status", "regex", "gt", "AND", "OR", "NOT"}

\* the outcome of a validation: the error thrown, or the value returned
Thrown == [threw |-> TRUE, value |-> Prim]
Returned(v) == [threw |-> FALSE, value |-> v]

\* Object.entries of an object or of an array (index keys)
EntriesOf(v) ==
    IF v.t = "obj" THEN v.items
    ELSE [i \in 1..Len(v.items) |-> Entry(ToString(i - 1), v.items[i])]

RECURSIVE validateFilters(_, _)
RECURSIVE validateNestedFilter(_, _)
RECURSIVE FilterEntries(_, _, _)
RECURSIVE NestedEntries(_, _, _)
RECURSIVE MapValidateFilters(_, _, _)

\* value.map(v => this.validateFilters(v, depth)), acc the items so far
MapValidateFilters(items, depth, acc) ==
    IF items = <<>> THEN Returned(Arr(acc))
    ELSE LET r == validateFilters(Head(items), depth)
         IN  IF r.threw THEN Thrown
             ELSE MapValidateFilters(Tail(items), depth, Append(acc, r.value))

\* the loop of validateFilters over the entries, acc the validated entries
FilterEntries(entries, depth, acc) ==
    IF entries = <<>> THEN Returned(Obj(acc))
    ELSE LET e == Head(entries)
             rest == Tail(entries)
         IN  IF ModelValidation.strictNodeNames /\ e.k \notin IdentifierKeys
                  /\ e.k \notin LogicalKeys
             THEN FilterEntries(rest, depth, acc)
             ELSE IF e.v.t = "arr"
             THEN IF Len(e.v.items) > ModelValidation.maxArrayInFilter THEN Thrown
                  ELSE FilterEntries(rest, depth, Append(acc, e))
             ELSE IF e.v.t = "obj"
             THEN LET r == validateNestedFilter(e.v, depth)
                  IN  IF r.threw THEN Thrown
                      ELSE FilterEntries(rest, depth, Append(acc, Entry(e.k, r.value)))
             ELSE FilterEntries(rest, depth, Append(acc, e))

\* validateFilters(filters, depth) on a value that is not null
validateFilters(filters, depth) ==
    IF filters.t # "obj" THEN Thrown
    ELSE IF depth > ModelValidation.maxFilterDepth THEN Thrown
    ELSE FilterEntries(filters.items, depth, <<>>)

\* the loop of validateNestedFilter over the entries
NestedEntries(entries, depth, acc) ==
    IF entries = <<>> THEN Returned(Obj(acc))
    ELSE LET e == Head(entries)
             rest == Tail(entries)
         IN  IF e.k \in ModelValidation.allowedFilterOperators
             THEN IF e.v.t = "arr" /\ Len(e.v.items) > ModelValidation.maxArrayInFilter
                  THEN Thrown
                  ELSE NestedEntries(rest, depth, Append(acc, e))
             ELSE IF e.k \in LogicalKeys
             THEN LET r == IF e.v.t = "arr"
                           THEN MapValidateFilters(e.v.items, depth + 1, <<>>)
                           ELSE validateFilters(e.v, depth + 1)
                  IN  IF r.threw THEN Thrown
                      ELSE NestedEntries(rest, depth, Append(acc, Entry(e.k, r.value)))
             ELSE IF e.v.t # "prim"
             THEN LET r == validateNestedFilter(e.v, depth + 1)
                  IN  IF r.threw THEN Thrown
                      ELSE NestedEntries(rest, depth, Append(acc, Entry(e.k, r.value)))
             ELSE NestedEntries(rest, depth, Append(acc, e))

\* validateNestedFilter(parentKey, filter, depth) on an object or an array
validateNestedFilter(filter, depth) == NestedEntries(EntriesOf(filter), depth, <<>>)

----------------------------------------------------------------------------
(* validateFilters applied to every value of bounded nesting *)

MaxNesting == 4

\* keys of the objects of the model: a field, an operator of the allow-list,
\* a logical keyword, a name outside the allow-list, and a key that is not
\* an identifier
ObjectKeys == {"status", "gt", "AND", "regex", "$where"}

\* arrays of primitives up to one longer than maxArrayInFilter
PrimitiveArrays ==
    {Arr([i \in 1..n |-> Prim]) : n \in 0..(ModelValidation.maxArrayInFilter + 1)}

\* the values nested at most d levels: primitives, arrays of primitives,
\* one-entry objects and one-item arrays of the values one level shallower
RECURSIVE Values(_)
Values(d) ==
    IF d = 0 THEN {Prim} \cup PrimitiveArrays
    ELSE Values(d - 1)
         \cup {Obj(<<Entry(k, v)>>) : k \in ObjectKeys, v \in Values(d - 1)}
         \cup {Arr(<<v>>) : v \in Values(d - 1)}

InitValidation ==
    /\ IdleExecutor
    /\ IdleEngine
    /\ IdleCursor
    /\ IdleStore
    /\ secConfig = NoSecurity
    /\ schema = EmptySchema
    /\ \/ \E filters \in Values(MaxNesting) : lastOp = Op("new", filters, Returned(Prim))
       \/ \E options \in OptionsInputs : lastOp = Op("options", options, Returned(Prim))

\* validateFilters(filters)
ValidateFilters ==
    /\ lastOp.op = "new"
    /\ lastOp' = Op("validateFilters", lastOp.arg, validateFilters(lastOp.arg, 0))
    /\ UNCHANGED <<schema, cursorVars, storeVars, secConfig, engineVars, exec>>

\* validateOptions(options)
ValidateOptions ==
    /\ lastOp.op = "options"
    /\ lastOp' = Op("validateOptions", lastOp.arg, validateOptions(lastOp.arg))
    /\ UNCHANGED <<schema, cursorVars, storeVars, secConfig, engineVars, exec>>

NextValidation ==
    \/ ValidateFilters
    \/ ValidateOptions

SpecValidation == InitValidation /\ [][NextValidation]_vars

----------------------------------------------------------------------------
(* The schema graph under addNode, clear, getNeighbors and findPath (SpecSchema) *)

MaxDepthArg == 2
MaxLimitArg == 2

SchemaNode(name, targets) ==
    [name |-> name, source |-> "test",
     edges |-> [i \in 1..Len(targets) |-> Edge(targets[i], "hasMany")]]

\* the nodes callers register: those of the test graph, and variants of
\* Order and Product with other edges: an edge to a name nobody registers,
\* an edge to the node itself, an edge back to User
SchemaNodes ==
    {TestNodes[i] : i \in 1..Len(TestNodes)}
        \cup {SchemaNode("Order", <<"Ghost", "Order">>), SchemaNode("Product", <<"User">>)}

InitSchema ==
    /\ IdleExecutor
    /\ IdleEngine
    /\ IdleCursor
    /\ IdleStore
    /\ secConfig = NoSecurity
    /\ schema = EmptySchema
    /\ lastOp = Op("new", NULL, NULL)

SchemaFrame == UNCHANGED <<cursorVars, storeVars, secConfig, engineVars, exec>>

\* this.schema.addNode(node, true)
AddNode(node, isRoot) ==
    /\ schema' = addNode(schema, node, isRoot)
    /\ lastOp' = Op("addNode", node.name, NULL)
    /\ SchemaFrame

ClearSchema ==
    /\ schema' = clear(schema)
    /\ lastOp' = Op("clear", NULL, NULL)
    /\ SchemaFrame

GetNeighbors(nodeName, limit) ==
    /\ lastOp' = Op("getNeighbors", [name |-> nodeName, limit |-> limit],
                    getNeighbors(schema, nodeName, limit))
    /\ UNCHANGED schema
    /\ SchemaFrame

FindPath(from, to, maxDepth) ==
    /\ lastOp' = Op("findPath", [from |-> from, to |-> to, maxDepth |-> maxDepth],
                    findPath(schema, from, to, maxDepth))
    /\ UNCHANGED schema
    /\ SchemaFrame

NextSchema ==
    \/ \E node \in SchemaNodes : AddNode(node, TRUE)
    \/ ClearSchema
    \/ \E nodeName \in NodeNames, limit \in 0..MaxLimitArg \cup {DefaultNeighborLimit} :
           GetNeighbors(nodeName, limit)
    \/ \E from \in NodeNames, to \in NodeNames, maxDepth \in 0..MaxDepthArg :
           FindPath(from, to, maxDepth)

SpecSchema == InitSchema /\ [][NextSchema]_vars

----------------------------------------------------------------------------
(* Claims about the schema graph (SpecSchema) *)

\* the adjacency index holds an edge from a to b
HasEdge(s, a, b) == Contains(EdgeTargets(s.edgeIndex, a), b)

\* the names within k hops of from along the edges of the adjacency index
RECURSIVE Within(_, _, _)
Within(s, from, k) ==
    IF k = 0 THEN {from}
    ELSE LET near == Within(s, from, k - 1)
         IN  near \cup {b \in NodeNames : \E a \in near : HasEdge(s, a, b)}

\* path leads from from to to along edges of the adjacency index
IsPath(s, path, from, to) ==
    /\ path # <<>>
    /\ path[1] = from /\ path[Len(path)] = to
    /\ \A i \in 1..(Len(path) - 1) : HasEdge(s, path[i], path[i + 1])

\* C24: findPath(from, to, maxDepth) for registered nodes from # to returns a
\* path that starts at from, ends at to, follows outgoing edges only (the
\* edges of the adjacency index) and has the fewest hops of any such path,
\* when a path of at most maxDepth hops exists; it returns null otherwise
\* (User to Product gives [User, Order, Product]; a node with no incoming
\* edges gives null).
C24_FindPathIsShortest ==
    lastOp.op = "findPath" =>
        LET from == lastOp.arg.from
            to == lastOp.arg.to
            hops == {k \in 1..lastOp.arg.maxDepth : to \in Within(schema, from, k)}
        IN  from # to /\ HasNode(schema, from) /\ HasNode(schema, to) =>
              /\ hops = {} => lastOp.result = NoPath
              /\ hops # {} =>
                   /\ IsPath(schema, lastOp.result, from, to)
                   /\ \A k \in hops : Len(lastOp.result) - 1 <= k
              /\ schema = TestSchema /\ from = "User" /\ to = "Product"
                   /\ lastOp.arg.maxDepth >= 2 =>
                     lastOp.result = <<"User", "Order", "Product">>
              /\ (\A a \in NodeNames : ~HasEdge(schema, a, to)) =>
                     lastOp.result = NoPath

\* findPath has found the two-hop path of the test graph
C24_FoundUserOrderProduct ==
    /\ lastOp.op = "findPath" /\ schema = TestSchema
    /\ lastOp.arg.from = "User" /\ lastOp.arg.to = "Product"
    /\ lastOp.result = <<"User", "Order", "Product">>

\* C25: findPath returns null whenever from or to is not a registered node,
\* for every pair of names and every maxDepth; for a registered node with
\* from equal to to it returns [from].
C25_UnregisteredEndpointGivesNull ==
    lastOp.op = "findPath" =>
        LET from == lastOp.arg.from
            to == lastOp.arg.to
        IN  /\ ~HasNode(schema, from) \/ ~HasNode(schema, to) => lastOp.result = NoPath
            /\ HasNode(schema, from) /\ from = to => lastOp.result = <<from>>

NoDuplicates(seq) == \A i, j \in 1..Len(seq) : seq[i] = seq[j] => i = j

\* the registered targets of the node's edges, in the order of the index
ForwardTargets(s, nodeName) ==
    SelectSeq(EdgeTargets(s.edgeIndex, nodeName), LAMBDA n : HasNode(s, n))

\* C26: getNeighbors(name, limit) returns at most limit registered nodes
\* without duplicates: the targets of name's outgoing edges in insertion
\* order first, then, only while under the limit, nodes that have an edge to
\* name; an unknown name returns nothing and an edge whose target is not
\* registered contributes nothing (Order with limit 5 gives exactly User and
\* Product, with limit 1 exactly one of them).
C26_NeighborsAreForwardThenReverse ==
    lastOp.op = "getNeighbors" =>
        LET name == lastOp.arg.name
            limit == lastOp.arg.limit
            r == lastOp.result
            forward == Slice(ForwardTargets(schema, name), limit)
        IN  /\ Len(r) <= limit
            /\ \A i \in 1..Len(r) : HasNode(schema, r[i])
            /\ NoDuplicates(r)
            /\ ~HasNode(schema, name) => r = <<>>
            /\ HasNode(schema, name) =>
                 /\ Len(r) >= Len(forward)
                 /\ SubSeq(r, 1, Len(forward)) = forward
                 /\ \A i \in (Len(forward) + 1)..Len(r) : HasEdge(schema, r[i], name)
                 /\ Len(r) < limit =>
                      \A n \in NodeNames :
                          HasNode(schema, n) /\ n # name /\ HasEdge(schema, n, name)
                              => Contains(r, n)
            /\ schema = TestSchema /\ name = "Order" =>
                 /\ limit = DefaultNeighborLimit =>
                      Len(r) = 2 /\ {r[i] : i \in 1..Len(r)} = {"User", "Product"}
                 /\ limit = 1 => Len(r) = 1 /\ r[1] \in {"User", "Product"}

\* getNeighbors has answered for Order of the test graph, whose edge target
\* User also points back to it
C26_OrderHasUserAndProduct ==
    /\ lastOp.op = "getNeighbors" /\ schema = TestSchema
    /\ lastOp.arg = [name |-> "Order", limit |-> DefaultNeighborLimit]
    /\ lastOp.result = <<"User", "Product">>

\* the targets of the edges of the node record registered under the name
RecordTargets(s, nodeName) ==
    IF HasNode(s, nodeName)
    THEN {getNode(s, nodeName).edges[i].to : i \in 1..Len(getNode(s, nodeName).edges)}
    ELSE {}

\* C37: after any sequence of addNode (including re-adding an existing name
\* with a different edge list) and clear, the outgoing neighbors and the
\* paths reported by getNeighbors and findPath for a node follow exactly the
\* edges of the node record currently registered under that name.
C37_IndexFollowsRegisteredRecords ==
    /\ lastOp.op = "getNeighbors" /\ HasNode(schema, lastOp.arg.name) =>
           {n \in NodeNames : Contains(ForwardTargets(schema, lastOp.arg.name), n)}
               = {n \in RecordTargets(schema, lastOp.arg.name) : HasNode(schema, n)}
    /\ lastOp.op = "findPath" =>
           \A i \in 1..(Len(lastOp.result) - 1) :
               lastOp.result[i + 1] \in RecordTargets(schema, lastOp.result[i])

\* C39: getNeighbors(name, limit) never returns the node called name itself,
\* also when that node has an edge whose target is itself.
C39_NeighborsExcludeTheNode ==
    lastOp.op = "getNeighbors" => ~Contains(lastOp.result, lastOp.arg.name)

----------------------------------------------------------------------------
(* Claims about one cursor (SpecCursor) *)

LastOf(path) == IF path = <<>> THEN NULL ELSE path[Len(path)]

\* C9: in every state a cursor reaches by navigateTo, goBack and reset, for
\* every maximum path length, depth = path length - 1 (-1 for an empty path)
\* and currentNode is the last entry of path (null for an empty path).
C9_DepthIsPathLengthMinusOne ==
    /\ cursor.depth = Len(cursor.path) - 1
    /\ cursor.currentNode = LastOf(cursor.path)

\* C10: metadata.exploredNodes is the number of distinct names in path in
\* every state reached by navigateTo, goBack and reset.
C10_ExploredIsDistinctNamesInPath ==
    cursor.exploredNodes = Cardinality(SeqToSet(cursor.path))

\* C11: the path of a cursor never holds more than the configured maximum
\* number of entries: navigateTo on a cursor whose path is already at the
\* maximum succeeds, drops the oldest entry and appends the new name, and the
\* remaining entries keep their order.
C11_PathIsASlidingWindow ==
    /\ [](Len(cursor.path) <= maxPathLength)
    /\ [][lastOp'.op = "navigateTo" /\ HasNode(schema, lastOp'.arg)
            /\ Len(cursor.path) = maxPathLength =>
               /\ lastOp'.result = "ok"
               /\ cursor'.path = Append(Tail(cursor.path), lastOp'.arg)]_vars

\* navigateTo has succeeded on a path that held the maximum of two or more
\* entries (depth is the length the path had before the call)
C11_NavigatedAtFullPath ==
    /\ lastOp.op = "navigateTo" /\ lastOp.result = "ok"
    /\ maxPathLength >= 2
    /\ cursor.depth = maxPathLength
    /\ Len(cursor.path) = maxPathLength

\* C12: navigateTo(name) with a name absent from the graph fails with
\* NODE_NOT_FOUND and leaves path, currentNode, depth, exploredNodes and the
\* cached neighbor list exactly as they were.
C12_FailedNavigateChangesNothing ==
    [][lastOp'.op = "navigateTo" /\ ~HasNode(schema, lastOp'.arg) =>
          /\ lastOp'.result = "NODE_NOT_FOUND"
          /\ cursor'.path = cursor.path
          /\ cursor'.currentNode = cursor.currentNode
          /\ cursor'.depth = cursor.depth
          /\ cursor'.exploredNodes = cursor.exploredNodes
          /\ cursor'.neighbors = cursor.neighbors]_vars

\* navigateTo has failed on a positioned cursor
C12_NavigateFailedOnPositionedCursor ==
    /\ lastOp.op = "navigateTo" /\ lastOp.result = "NODE_NOT_FOUND"
    /\ Len(cursor.path) >= 2
    /\ cursor.currentNode # lastOp.arg

\* C13: goBack on a cursor whose path has at most one entry returns null and
\* changes nothing; otherwise it removes only the last path entry and
\* repositions currentNode to the new last entry (User, Order, Product then
\* goBack gives current node Order and path [User, Order]).
C13_GoBackPopsOneEntry ==
    [][lastOp'.op = "goBack" =>
          IF Len(cursor.path) <= 1
          THEN lastOp'.result = "null" /\ cursor' = cursor
          ELSE /\ lastOp'.result = "ok"
               /\ cursor'.path = SubSeq(cursor.path, 1, Len(cursor.path) - 1)
               /\ cursor'.currentNode = cursor.path[Len(cursor.path) - 1]]_vars

\* goBack has returned to Order on the path [User, Order]
C13_WentBackToOrder ==
    /\ lastOp.op = "goBack" /\ lastOp.result = "ok"
    /\ cursor.path = <<"User", "Order">>
    /\ cursor.currentNode = "Order"
    /\ cursor.depth = 1

SetOf(seq) == {seq[i] : i \in 1..Len(seq)}

\* C27: getNeighborhood(size) on an unset cursor returns min(size,
\* number of root nodes) root nodes as neighbors, each with distance 1, and
\* the actions {explore, navigate, introspect}; on a positioned cursor it
\* returns the current node's neighbors and the actions {navigate, query},
\* plus explore exactly when the path has more than one entry.
C27_NeighborhoodFollowsPosition ==
    lastOp.op = "getNeighborhood" =>
        LET size == lastOp.arg
            view == lastOp.result
            names == [i \in 1..Len(view.neighbors) |-> view.neighbors[i].name]
            roots == getRootNodes(schema)
            smaller == IF size <= Len(roots) THEN size ELSE Len(roots)
        IN  /\ \A i \in 1..Len(view.neighbors) : view.neighbors[i].distance = 1
            /\ cursor.currentNode = NULL =>
                 /\ Len(names) = smaller
                 /\ SetOf(names) \subseteq SetOf(roots)
                 /\ SetOf(view.availableActions) = {"explore", "navigate", "introspect"}
            /\ cursor.currentNode # NULL =>
                 /\ names = getNeighbors(schema, cursor.currentNode, size)
                 /\ SetOf(view.availableActions) =
                        {"navigate", "query"}
                            \cup (IF Len(cursor.path) > 1 THEN {"explore"} ELSE {})

\* C40: the currentNode of a cursor is always null or the name of a node
\* that was registered in the graph when the cursor was positioned there,
\* for cursors made by the constructor, CursorManager.create(startNode) and
\* Engine.createCursor(startNode) as well as by navigateTo and goBack; so
\* getCurrentNode and the view of getNeighborhood agree on whether the cursor
\* is positioned.
C40_CurrentNodeIsRegistered ==
    /\ cursor.currentNode = NULL \/ HasNode(schema, cursor.currentNode)
    /\ getNeighborhood(cursor, schema, DefaultNeighborLimit).currentNode = NULL
           <=> cursor.currentNode = NULL

----------------------------------------------------------------------------
(* Claims about the cursor pool (SpecStore) *)

\* the cursors of a pool whose age at time t does not exceed the TTL
Unexpired(cs, t) == SelectSeq(cs, LAMBDA c : t - c.createdAt <= cursorTTL)

WithoutIndex(cs, k) == [i \in 1..(Len(cs) - 1) |-> IF i < k THEN cs[i] ELSE cs[i + 1]]

\* C5: after any sequence of create, get, getOrCreate, delete and clear on a
\* pool of capacity N >= 1, size() never exceeds N.
C5_SizeNeverExceedsCapacity == Len(cursors) <= maxCursors

\* a create that found the pool at capacity, and the pool is at capacity after it
C5_CreateAtCapacity ==
    /\ lastOp.op = "create"
    /\ lastOp.pre = maxCursors
    /\ Len(cursors) = maxCursors

\* C6: create removes every cursor whose age exceeds the TTL; it removes an
\* unexpired cursor only when the pool is still at capacity after that sweep,
\* and then exactly one: the one with the oldest creation timestamp, the
\* earliest registered among equal timestamps; all others are kept in order,
\* and the new cursor is registered after them.
C6_CreateSweepsThenEvictsOldest ==
    [][lastOp'.op = "create" =>
        LET live == Unexpired(cursors, now)
            kept == SubSeq(cursors', 1, Len(cursors') - 1)
            new  == cursors'[Len(cursors')]
        IN  /\ cursors' # <<>>
            /\ new.id = lastOp'.result
            /\ new.id \notin PoolIds(cursors)
            /\ IF Len(live) < maxCursors
               THEN kept = live
               ELSE \E k \in 1..Len(live) :
                       /\ \A j \in 1..Len(live) : live[k].createdAt <= live[j].createdAt
                       /\ \A j \in 1..(k - 1) : live[j].createdAt > live[k].createdAt
                       /\ kept = WithoutIndex(live, k)
    ]_vars

\* a create on a full pool of at least two cursors none of which can have
\* expired: the one removed went by the capacity eviction
C6_EvictedAtCapacity ==
    /\ lastOp.op = "create"
    /\ lastOp.pre = maxCursors
    /\ maxCursors >= 2
    /\ Len(cursors) = maxCursors
    /\ now <= cursorTTL

\* C7: get(id) never returns a cursor whose age exceeds the TTL: such a cursor
\* is removed and absent is returned; a registered cursor whose age does not
\* exceed the TTL is returned and stays registered; get of an id that is not
\* registered returns absent and leaves the pool unchanged.
C7_GetExpiresLazily ==
    [][lastOp'.op = "get" =>
        LET id == lastOp'.arg
        IN  IF \E i \in 1..Len(cursors) : cursors[i].id = id
            THEN LET c == cursors[CHOOSE i \in 1..Len(cursors) : cursors[i].id = id]
                 IN  IF now - c.createdAt > cursorTTL
                     THEN /\ lastOp'.result = NoId
                          /\ cursors' = SelectSeq(cursors, LAMBDA x : x.id # id)
                     ELSE /\ lastOp'.result = id
                          /\ cursors' = cursors
            ELSE /\ lastOp'.result = NoId
                 /\ cursors' = cursors
    ]_vars

\* a get of a registered id that returned absent: the cursor had expired
C7_GetFoundExpired ==
    /\ lastOp.op = "get"
    /\ lastOp.hit
    /\ lastOp.result = NoId
    /\ Len(cursors) = lastOp.pre - 1

\* C8: getOrCreate(id) never throws: for a registered, unexpired id it returns
\* that cursor and leaves the pool unchanged; for a missing, unknown or expired
\* id it registers and returns a brand-new cursor whose id is not the one asked for.
C8_GetOrCreateAlwaysReturnsACursor ==
    [][lastOp'.op = "getOrCreate" =>
        LET id == lastOp'.arg
            r  == lastOp'.result
        IN  /\ \E i \in 1..Len(cursors') : cursors'[i].id = r
            /\ IF \E i \in 1..Len(cursors) :
                     /\ cursors[i].id = id
                     /\ now - cursors[i].createdAt <= cursorTTL
               THEN /\ r = id
                    /\ cursors' = cursors
               ELSE /\ r # id
                    /\ r \notin PoolIds(cursors)
                    /\ r >= nextId
                    /\ cursors'[Len(cursors')].id = r
    ]_vars

\* a getOrCreate of a registered id that returned another cursor: the one
\* asked for had expired
C8_GetOrCreateReplacedExpired ==
    /\ lastOp.op = "getOrCreate"
    /\ lastOp.hit
    /\ lastOp.result # lastOp.arg

----------------------------------------------------------------------------
(* Claims about the security gate (SpecSecurity) *)

\* C3: checkNodeAccess(node, action, ctx) uses the rule registered for node,
\* and the wildcard rule only when node has no rule of its own; with no rule
\* it allows; with a rule it raises ACCESS_DENIED exactly when a non-empty
\* required-role list does not intersect the context's roles, or a non-empty
\* allowed-action list does not contain the action, or the custom predicate
\* returns false.
C3_AccessFollowsRegisteredRule ==
    lastOp.op = "checkNodeAccess" =>
        LET registered == IF secConfig.nodeAccess.set
                          THEN secConfig.nodeAccess.entries ELSE <<>>
            key  == IF lastOp.node \in DOMAIN registered THEN lastOp.node ELSE "*"
            fails(rule) ==
                \/ rule.roles # {} /\ rule.roles \cap lastOp.ctx.roles = {}
                \/ rule.actions # {} /\ lastOp.action \notin rule.actions
                \/ rule.check # "absent" /\ ~CheckHolds(rule.check, lastOp.ctx)
        IN  lastOp.result =
                IF key \in DOMAIN registered /\ fails(registered[key])
                THEN "ACCESS_DENIED" ELSE "ok"

----------------------------------------------------------------------------
(* Claims about handleToolCall (SpecEngine) *)

\* the codes of the errors that validation and the security checks throw
RejectionCodes ==
    {"VALIDATION_ERROR", "INVALID_ACTION", "NODE_REQUIRED", "INVALID_NODE",
     "ACCESS_DENIED", "AUTHORIZATION_ERROR", "INTROSPECTION_DISABLED"}

\* C1: a handleToolCall that fails validation or a security check is rejected
\* before any adapter method or plugin hook is invoked in that call, for
\* every call on an engine, including the first call on an engine that has
\* not been initialized yet.
C1_RejectedBeforeAdapterOrPluginWork ==
    call.phase = "done" /\ call.outcome \in RejectionCodes => call.invoked = {}

\* the filter set the row-level-security rule registered for the node of the
\* call, else the wildcard rule, yields for the context of the call
RegisteredRLS ==
    LET registered == IF secConfig.rowLevelSecurity.set
                      THEN secConfig.rowLevelSecurity.entries ELSE <<>>
        key == IF call.node \in DOMAIN registered THEN call.node ELSE "*"
    IN  IF key \in DOMAIN registered /\ registered[key] # "throws"
        THEN RunRLS(registered[key], call.ctx) ELSE EmptyFilters

C4_IntrospectAllowedOnlyByPolicy ==
    call.phase = "done" /\ call.action = "introspect" /\ call.outcome = "ok" =>
        \/ secConfig.introspection \in {NULL, "public"}
        \/ secConfig.introspection = "authenticated" /\ call.ctx.userId # NULL
        \/ secConfig.introspection \in {"hasUser", "deny"}
             /\ CheckHolds(secConfig.introspection, call.ctx)


\* the call in progress never gets past validation and leaves the pool alone
HandlingSkipped ==
    /\ call.phase \in {"init", "validate", "done"}
    /\ call.secured = EmptyFilters
    /\ call.invoked \subseteq {"adapter.introspect", "plugin.onInit"}

UnguardedCollaborators ==
    {"adapter", "plugin", "access predicate", "introspection predicate"}

\* the security callbacks whose failure the SecurityManager catches and
\* rethrows as an authorization error
GuardedCallbacks == {"context provider", "row-level-security function"}

C35_RejectionLeavesCursorsAlone ==
    [][call.phase # "done" /\ call'.phase = "done" /\ call'.outcome # "ok"
           => cursors' = cursors]_vars

----------------------------------------------------------------------------
(* Claims about hidden nodes and fields (SpecHidden) *)

\* a glob-style match of a field name against a pattern: the exact string
\* or "*"-wildcard segments, without regard to case
MatchesPattern(name, pattern) == RegexTest(name, pattern)

MatchesHiddenField(name) ==
    \E i \in 1..Len(secConfig.hiddenFields) :
        MatchesPattern(name, secConfig.hiddenFields[i])

\* C31: explore and introspect never list a node whose name is in
\* hiddenNodes, and navigate and introspect never return a field whose name
\* matches a hiddenFields pattern, while the edges and capabilities of a
\* returned node are unchanged.
C31_HiddenNodesAndFieldsStayHidden ==
    /\ lastOp.op = "explore" =>
          \A i \in 1..Len(lastOp.result.availableNodes) :
              ~Contains(secConfig.hiddenNodes, lastOp.result.availableNodes[i])
    /\ lastOp.op = "introspect" =>
          \A i \in 1..Len(lastOp.result.nodes) :
              LET node == lastOp.result.nodes[i]
              IN  /\ ~Contains(secConfig.hiddenNodes, node.name)
                  /\ \A j \in 1..Len(node.fields) :
                         ~MatchesHiddenField(node.fields[j].name)
                  /\ node.edges = getNode(schema, node.name).edges
                  /\ node.capabilities = getNode(schema, node.name).capabilities
    /\ lastOp.op = "navigate" /\ HasNode(schema, lastOp.arg) =>
          /\ \A j \in 1..Len(lastOp.result.fields) :
                 ~MatchesHiddenField(lastOp.result.fields[j])
          /\ lastOp.result.relatedNodes = getNode(schema, lastOp.arg).edges
          /\ lastOp.result.capabilities = getNode(schema, lastOp.arg).capabilities

----------------------------------------------------------------------------
(* Claims about initialization and schema refresh (SpecLife, SpecRefresh) *)

\* C33: initialization happens at most once per engine: when several
\* handleToolCall calls overlap before the first initialization has
\* completed, each adapter's introspect and each plugin's onInit run exactly
\* once and at most one schema-refresh timer is started.
C33_InitializationRunsOnce ==
    /\ life.introspects <= 1
    /\ life.onInits <= 1
    /\ life.timers <= 1
    /\ initialized => life.introspects = 1 /\ life.onInits = 1

IntrospectedNames == {TestNodes[i].name : i \in 1..Len(TestNodes)}

\* C34: with a schema refresh interval configured and adapters whose
\* introspection result never changes, every handleToolCall observes the
\* complete schema: a navigate for an introspected node never fails with
\* NODE_NOT_FOUND and explore never reports fewer nodes, because a refresh
\* is in progress.
C34_CallsSeeCompleteSchema ==
    life.interval =>
        \A k \in 1..MaxCalls :
            LET c == life.calls[k]
            IN  c.pc = "done" =>
                  /\ c.action = "navigate" /\ c.node \in IntrospectedNames
                         => c.outcome # "NODE_NOT_FOUND"
                  /\ c.action = "explore" => c.seen = Len(TestNodes)

\* C32: clearing and repopulating the schema graph leaves every cursor in
\* the pool retrievable under the same id with its path, currentNode and
\* depth unchanged, and navigateTo, goBack and reset on such a cursor still
\* work against the rebuilt graph.
C32_CursorsSurviveRefresh ==
    [][/\ RefreshSchema \/ RefreshResolves =>
             /\ PoolIds(cursors') = PoolIds(cursors)
             /\ \A id \in PoolIds(cursors) :
                    /\ get(cursors', id, now', cursorTTL').result = id
                    /\ PoolCursor(cursors', id).path = PoolCursor(cursors, id).path
                    /\ PoolCursor(cursors', id).currentNode
                           = PoolCursor(cursors, id).currentNode
                    /\ PoolCursor(cursors', id).depth = PoolCursor(cursors, id).depth
       /\ \A id \in life.survivors \cap PoolIds(cursors) :
             life.refresh = "idle" =>
                LET before == PoolCursor(cursors, id)
                    after  == PoolCursor(cursors', id)
                IN  /\ CursorGoBack(id) /\ Len(before.path) > 1 =>
                          /\ after.path = SubSeq(before.path, 1, Len(before.path) - 1)
                          /\ after.currentNode = after.path[Len(after.path)]
                          /\ after.neighbors = updateNeighbors(TestSchema, after.currentNode)
                    /\ CursorReset(id) =>
                          /\ after.path = <<>>
                          /\ after.currentNode = NULL
                          /\ after.depth = -1
                    /\ \A node \in IntrospectedNames :
                          BeginCall(1, "navigate", node, id) =>
                              /\ life'.calls[1].outcome = "ok"
                              /\ after.currentNode = node
                              /\ after.path[Len(after.path)] = node
                              /\ after.neighbors = updateNeighbors(TestSchema, node)]_vars

\* C32 witness: a cursor that was in the pool with path User, Order when the
\* refresh completed has gone back to User and sees Order as its neighbor
C32_SurvivorWentBack ==
    /\ lastOp.op = "goBack"
    /\ lastOp.arg \in life.survivors \cap PoolIds(cursors)
    /\ life.refresh = "idle"
    /\ PoolCursor(cursors, lastOp.arg).path = <<"User">>
    /\ PoolCursor(cursors, lastOp.arg).exploredNodes = 2
    /\ PoolCursor(cursors, lastOp.arg).neighbors = <<"Order">>

----------------------------------------------------------------------------
(* Claims about the query executor (SpecExecutor) *)

\* the positions of the log that hold an invocation of the hook
EventsOf(hook) == {k \in 1..Len(exec.log) : exec.log[k].hook = hook}

\* C14: execute settles with exactly one outcome of the race between
\* adapter.execute and the timer: if the timer fires first it rejects with a
\* TIMEOUT error, no post-query hook and no count call follow in that call,
\* and a later adapter result is discarded; if the adapter settles first its
\* result or error is used and no TIMEOUT error is raised.
C14_RaceSettlesOnce ==
    /\ [](exec.timer = "fired" =>
            /\ exec.outcome = "TIMEOUT_ERROR"
            /\ EventsOf("onPostQuery") = {} /\ EventsOf("count") = {}
            /\ exec.results = <<>> /\ exec.data = <<>>)
    /\ [](exec.timer = "cleared" =>
            /\ exec.outcome # "TIMEOUT_ERROR"
            /\ exec.adapter = "rejected" => exec.outcome = "ADAPTER_ERROR"
            /\ exec.adapter = "resolved" => exec.outcome \in {"pending", "ok"})
    /\ [][exec.outcome # "pending" => exec'.outcome = exec.outcome]_vars

\* the adapter has resolved with rows after the timer had fired
C14_AdapterSettledAfterTimeout ==
    /\ exec.timer = "fired"
    /\ exec.adapter = "resolved"
    /\ exec.outcome = "TIMEOUT_ERROR"

\* C15: within one execute call with several plugins, every plugin's
\* pre-query hook has run, in registration order, before any plugin's
\* translateFilter hook is invoked, and all of them have run before
\* adapter.execute is dispatched.
C15_PreQueryHooksBeforeTranslation ==
    exec.query = NULL =>
        /\ \A a \in EventsOf("onPreQuery"), b \in EventsOf("onPreQuery") :
              a < b => exec.log[a].plugin < exec.log[b].plugin
        /\ \A a \in EventsOf("onPreQuery"), b \in EventsOf("translateFilter") : a < b
        /\ \A a \in EventsOf("onPreQuery") \cup EventsOf("translateFilter"),
              b \in EventsOf("execute") : a < b

\* C16: executeWithSearch invokes each plugin's pre-query hook exactly once
\* per call, with the raw query string present in the plugin context of that
\* invocation, and otherwise runs the same pipeline as execute.
C16_SearchRunsPreQueryOnce ==
    exec.query # NULL /\ exec.pc = "done" /\ exec.outcome = "ok" =>
        \A i \in 1..Len(exec.plugins) :
            exec.plugins[i].onPreQuery =>
                /\ Cardinality({k \in EventsOf("onPreQuery") : exec.log[k].plugin = i}) = 1
                /\ \A k \in EventsOf("onPreQuery") :
                      exec.log[k].plugin = i => exec.log[k].query = exec.query

\* C17: when adapter.count fails, execute still returns the data of the
\* successful adapter.execute, with meta.total undefined; a failure of count
\* never makes the query fail.
C17_CountFailureIsSwallowed ==
    exec.countFailed =>
        /\ exec.pc = "done" /\ exec.outcome = "ok"
        /\ exec.adapter = "resolved"
        /\ exec.data = exec.results
        /\ exec.total = "undefined"

\* count has failed after adapter.execute returned a row
C17_CountFailedAfterRows ==
    /\ exec.countFailed
    /\ EventsOf("count") # {}
    /\ exec.data # <<>>

\* C36: execute and executeWithSearch invoke no plugin hook and no adapter
\* method when the node is absent (NODE_NOT_FOUND) or when no adapter is
\* registered for the node's source (ADAPTER_NOT_FOUND).
C36_NoWorkWithoutNodeOrAdapter ==
    exec.pc = "done" /\ exec.outcome \in {"NODE_NOT_FOUND", "ADAPTER_NOT_FOUND"} =>
        exec.log = <<>>

\* C38: every execute call settles (returns a result or rejects) once
\* adapter.execute has settled or the timeout has elapsed, whatever
\* adapter.count does afterwards, provided the plugin hooks terminate.
C38_ExecuteSettles ==
    (exec.adapter \in {"resolved", "rejected"} \/ exec.timer = "fired")
        ~> exec.pc = "done"

----------------------------------------------------------------------------
(* Claims about the result of execute (SpecResult) *)

\* execute has returned its QueryResult
ExecuteReturned ==
    exec.pc = "done" /\ exec.outcome = "ok"

\* C28: meta.hasMore of a query result is true exactly when the number of
\* rows in data equals the normalized limit of the call, and false when fewer
\* rows are returned.
C28_HasMoreIffDataFillsLimit ==
    ExecuteReturned =>
        /\ exec.hasMore <=> Len(exec.data) = exec.handed.limit
        /\ Len(exec.data) < exec.handed.limit => ~exec.hasMore

\* a call with limit 3 has returned three rows, and says there may be more
C28_ThreeRowsAtLimitThree ==
    /\ ExecuteReturned /\ exec.options.limit = Num(3)
    /\ Len(exec.data) = 3 /\ exec.hasMore

HasSuggestion(kind) ==
    \E i \in 1..Len(exec.nextActions) : exec.nextActions[i].kind = kind

\* C29: for a non-empty query result, nextActions contains the add-filters
\* suggestion exactly when the number of returned rows equals the limit used
\* for that query, for every limit between 1 and maxLimit; for an empty
\* result it contains only the different-query and navigate-away suggestions.
C29_AddFiltersIffDataFillsLimit ==
    ExecuteReturned =>
        IF Len(exec.data) = 0
        THEN {exec.nextActions[i].kind : i \in 1..Len(exec.nextActions)}
                 = {"tryDifferent", "navigateAway"}
        ELSE HasSuggestion("addFilters") <=> Len(exec.data) = exec.handed.limit

\* C30: the options QueryExecutor.execute passes to the adapter always have
\* limit in [1, maxLimit] (the configured default when missing or invalid)
\* and offset in [0, maxOffset] (0 when missing or invalid), for every
\* integer limit and offset given by the caller of execute.
C30_HandedOptionsAreClamped ==
    exec.adapter # "idle" =>
        /\ exec.handed.limit \in 1..ModelLimits.maxLimit
        /\ exec.options.limit.kind # "int" \/ exec.options.limit.n < 1 =>
               exec.handed.limit = ModelLimits.defaultLimit
        /\ exec.handed.offset \in 0..ModelLimits.maxOffset
        /\ exec.options.offset.kind # "int" \/ exec.options.offset.n < 0 =>
               exec.handed.offset = 0

----------------------------------------------------------------------------
(* Claims about filter validation (SpecValidation) *)

Max(S) == CHOOSE x \in S : \A y \in S : y <= x

RECURSIVE DepthOfFilters(_, _)
RECURSIVE DepthOfNested(_, _)

\* the deepest depth a filters object at depth d reaches, counted as the
\* validator counts it: the mapping under a field shares the depth of the
\* filters object, every object below it and every operand of AND/OR/NOT
\* lies one deeper
DepthOfFilters(v, d) ==
    IF v.t # "obj" THEN d
    ELSE Max({d} \cup
             {IF v.items[i].v.t = "obj" THEN DepthOfNested(v.items[i].v, d)
              ELSE IF v.items[i].v.t = "arr"
                   THEN Max({d} \cup {DepthOfFilters(v.items[i].v.items[j], d + 1) :
                                        j \in 1..Len(v.items[i].v.items)})
              ELSE d : i \in 1..Len(v.items)})

DepthOfNested(v, d) ==
    Max({d} \cup
        {IF EntriesOf(v)[i].v.t = "prim" THEN d
         ELSE IF EntriesOf(v)[i].k \in LogicalKeys /\ EntriesOf(v)[i].v.t = "obj"
              THEN DepthOfFilters(EntriesOf(v)[i].v, d + 1)
         ELSE IF EntriesOf(v)[i].v.t = "arr"
              THEN Max({d} \cup {DepthOfFilters(EntriesOf(v)[i].v.items[j], d + 1) :
                                   j \in 1..Len(EntriesOf(v)[i].v.items)})
         ELSE DepthOfNested(EntriesOf(v)[i].v, d + 1) : i \in 1..Len(EntriesOf(v))})

\* C18: validateFilters rejects with a validation error every filters value
\* whose nesting depth exceeds the configured maximum, wherever the nesting
\* occurs: in operator mappings, in nested relation-field objects, or inside
\* AND/OR/NOT values and arrays at any level including the top level.
C18_TooDeepIsRejected ==
    lastOp.op = "validateFilters" /\ lastOp.arg.t = "obj"
        /\ DepthOfFilters(lastOp.arg, 0) > ModelValidation.maxFilterDepth
    => lastOp.result.threw

RECURSIVE HasLongArray(_)
\* the value contains, at some level, an array longer than maxArrayInFilter
HasLongArray(v) ==
    \/ v.t = "arr" /\ Len(v.items) > ModelValidation.maxArrayInFilter
    \/ v.t = "arr" /\ \E i \in 1..Len(v.items) : HasLongArray(v.items[i])
    \/ v.t = "obj" /\ \E i \in 1..Len(v.items) : HasLongArray(v.items[i].v)

\* C19: validateFilters rejects with a validation error every filters value
\* that contains, at any level, an array longer than the configured maximum
\* array length.
C19_LongArrayIsRejected ==
    lastOp.op = "validateFilters" /\ HasLongArray(lastOp.arg) => lastOp.result.threw

RECURSIVE FilterKeysAllowed(_)
RECURSIVE NestedKeysAllowed(_)

\* every nested filter object inside a filters object has allowed keys only
FilterKeysAllowed(v) ==
    v.t = "obj" =>
        \A i \in 1..Len(v.items) :
            v.items[i].v.t = "obj" => NestedKeysAllowed(v.items[i].v)

\* the keys of a nested filter object are operators of the allow-list or
\* logical keywords, and so are those of the filters under the keywords
NestedKeysAllowed(v) ==
    \A i \in 1..Len(v.items) :
        /\ v.items[i].k \in ModelValidation.allowedFilterOperators \cup LogicalKeys
        /\ v.items[i].k \in LogicalKeys =>
              IF v.items[i].v.t = "arr"
              THEN \A j \in 1..Len(v.items[i].v.items) :
                      FilterKeysAllowed(v.items[i].v.items[j])
              ELSE FilterKeysAllowed(v.items[i].v)

\* C20: in the output of validateFilters, every key of a nested filter object
\* is in the configured operator allow-list or is one of AND/OR/NOT: any
\* other key is dropped at its level, and a key that is dropped never makes
\* validation throw.
C20_NestedKeysAreAllowListed ==
    lastOp.op = "validateFilters" /\ ~lastOp.result.threw =>
        FilterKeysAllowed(lastOp.result.value)

=============================================================================
